---- MODULE Spec2Model ----
(***************************************************************************)
(* AutoClick (src/AC.py): the marker list of the clicker page, the         *)
(* click-loop runner, the timed playback engine, the hotkey capture        *)
(* sessions of the two pages and the global hotkey dispatcher.             *)
(*                                                                         *)
(* Units.  Durations that are clamped or compared (marker intervals) are   *)
(* integers in units of 0.0001 s: 0.01 s = 100, 0.2 s = 2000,              *)
(* 5.0 s = 50000.  Recorded elapsed times are integer ticks.               *)
(***************************************************************************)
EXTENDS Integers, Sequences, FiniteSets, TLC

\* ------------------------------------------------------------------ bounds

MaxMarkers == 2
\* Events in a recording, and the largest recorded elapsed time in TimeUnits.
MaxEvents == 2
MaxTick == 2
\* Largest finite loop count entered in a page's "loops" field.
MaxLoops == 2
\* stop_play callbacks of ended playbacks waiting in the Tk queue.
MaxQueuedStop == 2
\* Key events delivered to a capture listener and not yet handled.
MaxInbox == 1

\* --------------------------------------------------------------- constants

\* time.sleep(max(0.01, min(5.0, float(m.interval)))): the two clamp limits.
MIN_WAIT == 100
MAX_WAIT == 50000
\* _commit_editor: "if iv < 0.01: iv = 0.01".
EDITOR_MIN_INTERVAL == 100
\* add_marker: Marker(..., button="left", interval=0.2).
DEFAULT_INTERVAL == 2000
\* default_config(): "speed": 1.0, "loops": 1 (gap and delay are 0.0).
DEFAULT_SPEED == 1
DEFAULT_LOOPS == 1

None == "None"

\* The threads that call MainApp.refresh_hotkeys: the Tk foreground and each
\* page's capture listener thread.
Threads == {"fg", "rec", "clk"}
\* No start call has returned yet.
NoResult == [ok |-> FALSE, msg |-> ""]

\* The threads that append to a recording: the pointer listener, the key
\* listener and the sampler.
RecThreads == {"mouse", "key", "sampler"}

\* No request has been handled yet, or the last one went through to the
\* player (which logs its answer).
NoCall == [op |-> "", refused |-> FALSE, logged |-> FALSE]
Pages == {"rec", "clk"}
ActionsOf(p) == IF p = "rec" THEN {"toggle_record", "toggle_play"}
                             ELSE {"start_stop", "add_marker"}

\* default_config(): the bindings both pages are constructed with.
DefaultHotkeys ==
    [rec |-> [toggle_record |-> "<f9>", toggle_play |-> "<f10>"],
     clk |-> [start_stop |-> "<f7>", add_marker |-> "<f6>"]]

Buttons == {"left", "right"}
\* Screen positions a marker window can be dropped at.
Positions == {<<5, 5>>, <<50, 50>>}
\* Interval values typed into the list editor or found in a file:
\* 0.0001 s, 0.1 s, 0.2 s and 9.0 s.
IntervalInputs == {1, 1000, 2000, 90000}

VARIABLES
    \* ---- hotkeys (RecorderPage / ClickerPage / GlobalHotkeyManager)
    hotkeys,          \* hotkeys[p][a]: the page's binding table
    hk_listener,      \* GlobalHotkeyManager.listener: NoListener or the live mapping
    hk_mapping,       \* GlobalHotkeyManager.mapping
    hk_error,         \* the most recent set_mapping called on_error
    hk_leaked,        \* mappings of listeners running but no longer referenced
    refresh_pc,       \* refresh_pc[t]: thread t's position inside set_mapping
    refresh_map,      \* refresh_map[t]: the mapping thread t's refresh has built
    refresh_left,     \* refresh_left[t]: refresh_hotkeys calls thread t still makes
    \* ---- hotkey capture sessions, per page
    capture_action,   \* _capture_action: None or the action being rebound
    cap_listener,     \* _cap_listener is a running KeyListener
    cap_pressed,      \* _cap_pressed: the modifier tokens taken as held
    cap_inbox,        \* key events delivered to the listener, not yet handled
    cap_pc,           \* the listener thread's position inside on_press
    cap_combo,        \* on_press's combo: the last candidate chord built
    buttons_disabled, \* the page's capture buttons are disabled
    held,             \* physical modifier keys held down, in press order
    \* ---- page parameters (Tk variables)
    var_loops,        \* var_loops[p]: the page's loop count field
    var_delay,        \* var_delay[p]: the page's start delay field
    var_speed,        \* RecorderPage.var_speed
    var_gap,          \* RecorderPage.var_gap
    \* ---- clicker page
    markers,          \* ClickerPage.markers: sequence of Marker objects
    marker_windows,   \* ClickerPage.marker_windows
    \* ---- ClickRunner and its worker thread
    stop_event,       \* ClickRunner._stop_event
    is_running,       \* ClickRunner._is_running
    clk_pc,           \* worker's position
    clk_run,          \* start's arguments: the markers' values at the call, cfg
    clk_loop_idx,     \* worker's loop_idx
    clk_i,            \* position of the for loop in markers
    clk_out,          \* actions injected in the current loop iteration
    clk_clicks,       \* clicks issued in this run (kept at its cap once there)
    clk_seen_stop,    \* the worker has read _stop_event as set in this run
    clk_snapshot,     \* worker's markers: the Marker objects of the copied list
    clk_result,       \* the last return of ClickRunner.start
    clk_open,         \* runs launched whose on_end has not been invoked
    clk_after_stop,   \* clicks issued with _stop_event set and not yet read (kept at 2)
    \* ---- RecorderPlayer and its playback thread
    recording,        \* RecorderPlayer.recording.events
    mouse_listener,   \* RecorderPlayer._mouse_listener is not None
    stop_play_event,  \* RecorderPlayer._stop_play_event
    is_playing,       \* RecorderPlayer._is_playing
    play_pc,          \* play_loop's position
    play_run,         \* play_loop's closure: events_copy, speed, loops, gap, delay
    play_loop_index,  \* play_loop's loop_index
    play_i,           \* position of the for loop in events_copy
    play_prev_t,      \* play_loop's prev_t
    play_wait,        \* the last wait_time handed to time.sleep
    play_slept,       \* sum of the per-event sleeps of the current iteration
    play_applied,     \* effects applied in the current loop iteration
    play_seen_stop,   \* play_loop has read _stop_play_event as set in this run
    play_raised,      \* play_loop left its try block by an exception
    queued_stop_play, \* stop_play callbacks queued by _on_play_end, not yet run
    play_result,      \* the last return of RecorderPlayer.start_playback
    play_open,        \* runs launched whose _on_play_end has not been invoked
    play_gaps,        \* time.sleep(gap) calls made in this run
    play_after_stop,  \* events applied with _stop_play_event set and not yet read
    \* ---- RecorderPlayer's recording threads
    clock,            \* time.time() - _start_time, in time units
    rec_pending,      \* rec_pending[th]: the stamp th has read and not yet appended
    stop_reported,    \* the event count the last stop_recording reported, if any
    stop_record_event, \* RecorderPlayer._stop_record_event
    samplers,         \* the sampler threads alive, in the order of their start
    \* ---- the pages' request handlers
    last_call         \* the recorder page's last request, when it ended early

vars_hk == <<hotkeys, hk_listener, hk_mapping, hk_error>>
vars_cap == <<capture_action, cap_listener, cap_pressed, cap_inbox, cap_pc, cap_combo,
              buttons_disabled, held>>
vars_param == <<var_loops, var_delay, var_speed, var_gap>>
vars_mark == <<markers, marker_windows>>
vars_clk == <<stop_event, is_running, clk_pc, clk_run, clk_loop_idx, clk_i, clk_out,
              clk_clicks, clk_seen_stop>>
vars_play == <<recording, mouse_listener, stop_play_event, is_playing, play_pc,
               play_run, play_loop_index, play_i, play_prev_t, play_wait, play_slept,
               play_applied, play_seen_stop, play_raised, queued_stop_play>>
vars_ref == <<hk_leaked, refresh_pc, refresh_map, refresh_left>>
vars_clk_aux == <<clk_snapshot, clk_result, clk_open, clk_after_stop, clk_after_stop>>
vars_play_aux == <<play_result, play_open, play_gaps, play_after_stop>>
vars_rec == <<clock, rec_pending, stop_reported, stop_record_event, samplers>>
vars_aux == <<vars_ref, vars_clk_aux, vars_play_aux, vars_rec, last_call>>
vars == <<vars_hk, vars_cap, vars_param, vars_mark, vars_clk, vars_play, vars_aux>>

\* ------------------------------------------------------------- helpers

Range(s) == {s[i] : i \in DOMAIN s}

RemoveAt(s, i) == [j \in 1..(Len(s) - 1) |-> IF j < i THEN s[j] ELSE s[j + 1]]

Min2(a, b) == IF a < b THEN a ELSE b
Max2(a, b) == IF a > b THEN a ELSE b

\* ------------------------------------------------- global hotkey manager

\* RecorderPage.get_hotkey_mapping / ClickerPage.get_hotkey_mapping: a dict
\* literal with two keys; when both actions hold the same chord the second
\* entry overwrites the first.
GetHotkeyMapping(hk, p) ==
    LET first == IF p = "rec" THEN "toggle_record" ELSE "start_stop"
        second == IF p = "rec" THEN "toggle_play" ELSE "add_marker"
    IN [c \in {hk[p][first], hk[p][second]} |->
            IF c = hk[p][second] THEN second ELSE first]

\* A refresh_hotkeys that adds the clicker's entries first.
CombinedMappingClickerFirst(hk) ==
    LET r == GetHotkeyMapping(hk, "rec")
        c == GetHotkeyMapping(hk, "clk")
    IN [ch \in (DOMAIN r) \cup (DOMAIN c) |->
            IF ch \in DOMAIN c THEN c[ch] ELSE r[ch]]

\* MainApp.refresh_hotkeys: the recorder's entries first, then the clicker's
\* entries whose chord is not yet in the mapping.
CombinedMapping(hk) ==
    LET r == GetHotkeyMapping(hk, "rec")
        c == GetHotkeyMapping(hk, "clk")
    IN [ch \in (DOMAIN r) \cup (DOMAIN c) |->
            IF ch \in DOMAIN r THEN r[ch] ELSE c[ch]]

\* GlobalHotkeyManager.listener after stop(): no listener object. A live
\* listener always carries a non-empty mapping.
NoListener == << >>

\* A set_mapping whose failed install leaves the previous listener in place.
SetMappingKeepsPrevious(m, ok) ==
    /\ hk_mapping' = m
    /\ hk_listener' = IF DOMAIN m = {} THEN NoListener
                       ELSE IF ok THEN m ELSE hk_listener
    /\ hk_error' = (DOMAIN m # {} /\ ~ok)

\* GlobalHotkeyManager.set_mapping: stop() drops the listener, the mapping is
\* stored; an empty mapping installs nothing; otherwise the listener is built
\* and started (ok) or the exception is handed to on_error (~ok) and the call
\* returns.
SetMappingOutcome(m, ok) ==
    /\ hk_mapping' = m
    /\ hk_listener' = IF DOMAIN m = {} \/ ~ok THEN NoListener ELSE m
    /\ hk_error' = (DOMAIN m # {} /\ ~ok)

\* set_mapping when the install succeeds.
SetMapping(m) == SetMappingOutcome(m, TRUE)

\* MainApp.refresh_hotkeys on the binding tables hk.
RefreshHotkeys(hk) == SetMapping(CombinedMapping(hk))

\* MainApp.get_all_hotkeys(except_page)
GetAllHotkeys(hk, except_page) ==
    UNION {{hk[p][a] : a \in ActionsOf(p)} : p \in Pages \ {except_page}}

\* ------------------------------------------------------- chord normalizer

\* Physical keys.  A pynput Key has a name; a KeyCode has a virtual key code
\* (0: none) and a character.
K_ctrl_l == [cls |-> "Key", name |-> "ctrl_l"]
K_ctrl_r == [cls |-> "Key", name |-> "ctrl_r"]
K_alt_l == [cls |-> "Key", name |-> "alt_l"]
K_shift == [cls |-> "Key", name |-> "shift"]
K_cmd == [cls |-> "Key", name |-> "cmd"]
K_f9 == [cls |-> "Key", name |-> "f9"]
K_esc == [cls |-> "Key", name |-> "esc"]
K_space == [cls |-> "Key", name |-> "space"]
KC_a == [cls |-> "KeyCode", vk |-> 65, char |-> "A"]
KC_Z == [cls |-> "KeyCode", vk |-> 0, char |-> "Z"]

\* is_modifier / mod_token
ModToken(k) ==
    IF k.cls # "Key" THEN None
    ELSE CASE k.name \in {"shift", "shift_l", "shift_r"} -> "<shift>"
           [] k.name \in {"ctrl", "ctrl_l", "ctrl_r"} -> "<ctrl>"
           [] k.name \in {"alt", "alt_l", "alt_r"} -> "<alt>"
           [] k.name \in {"cmd", "cmd_l", "cmd_r"} -> "<cmd>"
           [] OTHER -> None
IsModifier(k) == ModToken(k) # None

\* chr(vk) for the digit and letter key codes, the letters lower-cased.
DigitChars == <<"0", "1", "2", "3", "4", "5", "6", "7", "8", "9">>
LetterChars == <<"a", "b", "c", "d", "e", "f", "g", "h", "i", "j", "k", "l", "m",
                 "n", "o", "p", "q", "r", "s", "t", "u", "v", "w", "x", "y", "z">>
UpperChars == <<"A", "B", "C", "D", "E", "F", "G", "H", "I", "J", "K", "L", "M",
                "N", "O", "P", "Q", "R", "S", "T", "U", "V", "W", "X", "Y", "Z">>
\* str.lower() on one character
Lower(c) ==
    IF \E k \in DOMAIN UpperChars : UpperChars[k] = c
    THEN LetterChars[CHOOSE k \in DOMAIN UpperChars : UpperChars[k] = c]
    ELSE c

\* keycode_to_char
KeycodeToChar(k) ==
    IF k.vk >= 48 /\ k.vk <= 57 THEN DigitChars[k.vk - 47]
    ELSE IF k.vk >= 65 /\ k.vk <= 90 THEN LetterChars[k.vk - 64]
    ELSE IF k.char # None THEN Lower(k.char)
    ELSE None

\* Key names "f<digits>".
FKeyNames == {"f1", "f2", "f3", "f4", "f5", "f6", "f7", "f8", "f9", "f10", "f11", "f12"}

\* on_press: the non-modifier key's token, or None.
KeyStr(k) ==
    IF k.cls = "KeyCode" THEN KeycodeToChar(k)
    ELSE IF k.name \in FKeyNames THEN "<" \o k.name \o ">"
    ELSE None

\* on_press: order = ["<ctrl>", "<alt>", "<shift>", "<cmd>"]
ORDER == <<"<ctrl>", "<alt>", "<shift>", "<cmd>">>
\* Faulty variant: the tokens in plain string order
ORDER_ALPHABETIC == <<"<alt>", "<cmd>", "<ctrl>", "<shift>">>

OrderIndex(order, x) ==
    IF \E k \in DOMAIN order : order[k] = x
    THEN CHOOSE k \in DOMAIN order : order[k] = x
    ELSE 99

\* sorted(S, key = index in order)
RECURSIVE SortedBy(_, _)
SortedBy(S, order) ==
    IF S = {} THEN <<>>
    ELSE LET first == CHOOSE x \in S :
                 \A y \in S : OrderIndex(order, x) <= OrderIndex(order, y)
         IN <<first>> \o SortedBy(S \ {first}, order)

\* "+".join(parts)
RECURSIVE JoinPlus(_)
JoinPlus(parts) ==
    IF Len(parts) = 0 THEN ""
    ELSE IF Len(parts) = 1 THEN parts[1]
    ELSE parts[1] \o "+" \o JoinPlus(Tail(parts))

\* Faulty variant: the modifiers sorted without the key function
ComboUnordered(pressed, keystr) ==
    JoinPlus(SortedBy(pressed, ORDER_ALPHABETIC) \o <<keystr>>)

\* on_press: mods = sorted(_cap_pressed, key=...);
\* combo = "+".join(mods + [keystr]) if mods else keystr
Combo(pressed, keystr) ==
    IF pressed # {} THEN JoinPlus(SortedBy(pressed, ORDER) \o <<keystr>>) ELSE keystr

\* ------------------------------------------------------- capture sessions

\* _is_hotkey_in_use(combo, exclude_action) of page p
IsHotkeyInUse(hk, p, combo, exclude_action) ==
    \/ \E a \in ActionsOf(p) \ {exclude_action} : hk[p][a] = combo
    \/ combo \in GetAllHotkeys(hk, p)

\* _begin_capture(action) of page p
BeginCapture(p, action) ==
    /\ IF capture_action[p] # None
       THEN UNCHANGED <<vars_hk, vars_cap>>
       ELSE /\ capture_action' = [capture_action EXCEPT ![p] = action]
            /\ hk_listener' = NoListener
            /\ buttons_disabled' = [buttons_disabled EXCEPT ![p] = TRUE]
            /\ cap_pressed' = [cap_pressed EXCEPT ![p] = {}]
            /\ cap_listener' = [cap_listener EXCEPT ![p] = TRUE]
            /\ cap_inbox' = [cap_inbox EXCEPT ![p] = <<>>]
            /\ cap_combo' = [cap_combo EXCEPT ![p] = None]
            /\ UNCHANGED <<hotkeys, hk_mapping, hk_error, cap_pc, held>>
    /\ UNCHANGED <<vars_param, vars_mark, vars_clk, vars_play, vars_aux>>

\* An _end_capture that re-installs the dispatcher with the mapping of the
\* binding tables as they were before the handler ran.
EndCaptureStaleMapping(p, hk) ==
    /\ cap_listener' = [cap_listener EXCEPT ![p] = FALSE]
    /\ cap_inbox' = [cap_inbox EXCEPT ![p] = <<>>]
    /\ cap_pressed' = [cap_pressed EXCEPT ![p] = {}]
    /\ buttons_disabled' = [buttons_disabled EXCEPT ![p] = FALSE]
    /\ capture_action' = [capture_action EXCEPT ![p] = None]
    /\ cap_pc' = [cap_pc EXCEPT ![p] = "wait"]
    /\ RefreshHotkeys(hotkeys)

\* _end_capture of page p on the binding tables hk: the listener is stopped,
\* the session fields are cleared, the buttons enabled and refresh_hotkeys
\* is called (by _notify_hotkeys_changed and once more directly).
EndCapture(p, hk) ==
    /\ cap_listener' = [cap_listener EXCEPT ![p] = FALSE]
    /\ cap_inbox' = [cap_inbox EXCEPT ![p] = <<>>]
    /\ cap_pressed' = [cap_pressed EXCEPT ![p] = {}]
    /\ buttons_disabled' = [buttons_disabled EXCEPT ![p] = FALSE]
    /\ capture_action' = [capture_action EXCEPT ![p] = None]
    /\ cap_pc' = [cap_pc EXCEPT ![p] = "wait"]
    /\ RefreshHotkeys(hk)

\* The keyboard delivers an event to every running capture listener.
Deliver(ev) ==
    cap_inbox' = [p \in Pages |->
                     IF cap_listener[p] THEN Append(cap_inbox[p], ev) ELSE cap_inbox[p]]
InboxRoom == \A p \in Pages : Len(cap_inbox[p]) < MaxInbox

\* The user presses a key.
KeyDown(k) ==
    /\ InboxRoom
    /\ IF IsModifier(k)
       THEN k \notin Range(held) /\ held' = Append(held, k)
       ELSE UNCHANGED held
    /\ Deliver([kind |-> "press", key |-> k])
    /\ UNCHANGED <<vars_hk, capture_action, cap_listener, cap_pressed, cap_pc, cap_combo,
                   buttons_disabled>>
    /\ UNCHANGED <<vars_param, vars_mark, vars_clk, vars_play, vars_aux>>

\* The user releases a modifier key that is held, or the Esc key.
KeyUp(k) ==
    /\ InboxRoom
    /\ IF IsModifier(k)
       THEN /\ k \in Range(held)
            /\ held' = SelectSeq(held, LAMBDA h : h # k)
       ELSE k = K_esc /\ UNCHANGED held
    /\ Deliver([kind |-> "release", key |-> k])
    /\ UNCHANGED <<vars_hk, capture_action, cap_listener, cap_pressed, cap_pc, cap_combo,
                   buttons_disabled>>
    /\ UNCHANGED <<vars_param, vars_mark, vars_clk, vars_play, vars_aux>>

\* on_press of page p's capture listener, up to the conflict check: a
\* modifier is added to _cap_pressed; a key without token is ignored; a
\* candidate in use is rejected and _cap_pressed cleared; a free candidate goes
\* on to the commit.
CapOnPress(p) ==
    /\ cap_listener[p] /\ cap_pc[p] = "wait"
    /\ cap_inbox[p] # <<>> /\ Head(cap_inbox[p]).kind = "press"
    /\ LET k == Head(cap_inbox[p]).key
           keystr == KeyStr(k)
           combo == Combo(cap_pressed[p], keystr)
       IN IF IsModifier(k)
          THEN /\ cap_pressed' = [cap_pressed EXCEPT ![p] = @ \cup {ModToken(k)}]
               /\ cap_inbox' = [cap_inbox EXCEPT ![p] = Tail(@)]
               /\ UNCHANGED <<cap_pc, cap_combo>>
          ELSE IF keystr = None
          THEN /\ cap_inbox' = [cap_inbox EXCEPT ![p] = Tail(@)]
               /\ UNCHANGED <<cap_pressed, cap_pc, cap_combo>>
          ELSE IF IsHotkeyInUse(hotkeys, p, combo, capture_action[p])
          THEN /\ cap_combo' = [cap_combo EXCEPT ![p] = combo]
               /\ cap_pressed' = [cap_pressed EXCEPT ![p] = {}]
               /\ cap_inbox' = [cap_inbox EXCEPT ![p] = Tail(@)]
               /\ UNCHANGED cap_pc
          ELSE /\ cap_combo' = [cap_combo EXCEPT ![p] = combo]
               /\ cap_pc' = [cap_pc EXCEPT ![p] = "commit"]
               /\ UNCHANGED <<cap_pressed, cap_inbox>>
    /\ UNCHANGED <<vars_hk, capture_action, cap_listener, buttons_disabled, held>>
    /\ UNCHANGED <<vars_param, vars_mark, vars_clk, vars_play, vars_aux>>

\* on_press after the check: the binding is written and the session ended.
CapCommit(p) ==
    /\ cap_listener[p] /\ cap_pc[p] = "commit"
    /\ hotkeys' = [hotkeys EXCEPT ![p][capture_action[p]] = cap_combo[p]]
    /\ EndCapture(p, hotkeys')
    /\ UNCHANGED <<cap_combo, held>>
    /\ UNCHANGED <<vars_param, vars_mark, vars_clk, vars_play, vars_aux>>

\* on_release of page p's capture listener: a modifier's token is discarded,
\* Esc cancels the session.
CapOnRelease(p) ==
    /\ cap_listener[p] /\ cap_pc[p] = "wait"
    /\ cap_inbox[p] # <<>> /\ Head(cap_inbox[p]).kind = "release"
    /\ LET k == Head(cap_inbox[p]).key
       IN IF IsModifier(k)
          THEN /\ cap_pressed' = [cap_pressed EXCEPT ![p] = @ \ {ModToken(k)}]
               /\ cap_inbox' = [cap_inbox EXCEPT ![p] = Tail(@)]
               /\ UNCHANGED <<vars_hk, capture_action, cap_listener, cap_pc,
                              buttons_disabled>>
          ELSE IF k = K_esc
          THEN /\ EndCapture(p, hotkeys)
               /\ UNCHANGED hotkeys
          ELSE /\ cap_inbox' = [cap_inbox EXCEPT ![p] = Tail(@)]
               /\ UNCHANGED <<vars_hk, capture_action, cap_listener, cap_pressed, cap_pc,
                              buttons_disabled>>
    /\ UNCHANGED <<cap_combo, held>>
    /\ UNCHANGED <<vars_param, vars_mark, vars_clk, vars_play, vars_aux>>

\* ------------------------------------------------------------ marker list

\* A _refresh that leaves the markers' id fields as they are.
KeepMarkerIds(ms) == ms

\* ClickerPage._refresh: ids and window numbers become the list positions.
RenumberMarkers(ms) == [i \in 1..Len(ms) |-> [ms[i] EXCEPT !.id = i]]
RenumberWindows(ws) == [i \in 1..Len(ws) |-> [ws[i] EXCEPT !.marker_id = i]]

\* Object identities of the Marker objects in a list.
Oids(ms) == {ms[i].oid : i \in DOMAIN ms}
FreshOid(used) == CHOOSE o \in 1..(Cardinality(used) + 1) : o \notin used

\* The list a worker got from markers.copy() holds the page's Marker objects
\* themselves: after the page's list has become ms, every object of the copy
\* that is still in ms has the field values it has there, and an object that
\* was removed from the page keeps its last values.
Shared(snap, ms) ==
    [k \in DOMAIN snap |->
        IF \E j \in DOMAIN ms : ms[j].oid = snap[k].oid
        THEN ms[CHOOSE j \in DOMAIN ms : ms[j].oid = snap[k].oid]
        ELSE snap[k]]

\* ClickerPage.add_marker's new Marker and MarkerWindow, before _refresh.
NewMarker(ms, pos) ==
    [oid |-> FreshOid(Oids(ms) \cup Oids(clk_snapshot)), id |-> Len(ms) + 1, x |-> pos[1], y |-> pos[2],
     button |-> "left", interval |-> DEFAULT_INTERVAL]
NewWindow(ms) == [marker_id |-> Len(ms) + 1, hidden |-> FALSE]

\* ClickerPage.add_marker (button, hotkey callback)
AddMarker(pos) ==
    /\ Len(markers) < MaxMarkers
    /\ markers' = RenumberMarkers(Append(markers, NewMarker(markers, pos)))
    /\ marker_windows' = RenumberWindows(Append(marker_windows, NewWindow(markers)))
    /\ clk_snapshot' = Shared(clk_snapshot, markers')
    /\ UNCHANGED <<vars_hk, vars_cap, vars_param, vars_clk, vars_play, vars_ref,
                   clk_result, clk_open, clk_after_stop, vars_play_aux>>
    /\ UNCHANGED <<vars_rec, last_call>>

\* delete_selected's loop: the selected ids in descending order, each removed
\* from both lists by position.
RECURSIVE DeleteIds(_, _)
DeleteIds(s, sel) ==
    IF sel = {} THEN s
    ELSE LET mid == CHOOSE m \in sel : \A o \in sel : o <= m
         IN DeleteIds(RemoveAt(s, mid), sel \ {mid})

\* ClickerPage.delete_selected with the tree's selection sel
DeleteSelected(sel) ==
    /\ sel # {}
    /\ sel \subseteq 1..Len(markers)
    /\ markers' = RenumberMarkers(DeleteIds(markers, sel))
    /\ marker_windows' = RenumberWindows(DeleteIds(marker_windows, sel))
    /\ clk_snapshot' = Shared(clk_snapshot, markers')
    /\ UNCHANGED <<vars_hk, vars_cap, vars_param, vars_clk, vars_play, vars_ref,
                   clk_result, clk_open, clk_after_stop, vars_play_aux>>
    /\ UNCHANGED <<vars_rec, last_call>>

\* ClickerPage.clear_markers
ClearMarkers ==
    /\ markers' = <<>>
    /\ marker_windows' = <<>>
    /\ clk_snapshot' = Shared(clk_snapshot, markers')
    /\ UNCHANGED <<vars_hk, vars_cap, vars_param, vars_clk, vars_play, vars_ref,
                   clk_result, clk_open, clk_after_stop, vars_play_aux>>
    /\ UNCHANGED <<vars_rec, last_call>>

\* ClickerPage._on_marker_move(mid, x, y): a marker window was dragged (a
\* withdrawn window gets no pointer event).
OnMarkerMove(mid, pos) ==
    /\ mid \in 1..Len(markers)
    /\ ~marker_windows[mid].hidden
    /\ markers' = RenumberMarkers([markers EXCEPT ![mid].x = pos[1], ![mid].y = pos[2]])
    /\ marker_windows' = RenumberWindows(marker_windows)
    /\ clk_snapshot' = Shared(clk_snapshot, markers')
    /\ UNCHANGED <<vars_hk, vars_cap, vars_param, vars_clk, vars_play, vars_ref,
                   clk_result, clk_open, clk_after_stop, vars_play_aux>>
    /\ UNCHANGED <<vars_rec, last_call>>

\* ClickerPage._on_marker_close(mid): right click on a marker window.
OnMarkerClose(mid) ==
    /\ mid \in 1..Len(markers)
    /\ ~marker_windows[mid].hidden
    /\ markers' = RenumberMarkers(RemoveAt(markers, mid))
    /\ marker_windows' = RenumberWindows(RemoveAt(marker_windows, mid))
    /\ clk_snapshot' = Shared(clk_snapshot, markers')
    /\ UNCHANGED <<vars_hk, vars_cap, vars_param, vars_clk, vars_play, vars_ref,
                   clk_result, clk_open, clk_after_stop, vars_play_aux>>
    /\ UNCHANGED <<vars_rec, last_call>>

\* _commit_editor, column "interval": only the lower limit is applied.
EditorInterval(iv) == IF iv < EDITOR_MIN_INTERVAL THEN EDITOR_MIN_INTERVAL ELSE iv

\* The combobox labels of the button column (the source's two Chinese labels
\* for "left button" and "right button").
LABEL_LEFT == "label_left"
LABEL_RIGHT == "label_right"

\* ClickerPage._commit_editor(row, col, new_val).  parses = FALSE is a text
\* that int(float(..)) or float(..) rejects: the exception is swallowed and
\* nothing is stored.  The finally block refreshes in every case.
CommitEditor(idx, col, parses, new_val) ==
    /\ idx \in 1..Len(markers)
    /\ \/ col = "x" /\ new_val \in {p[1] : p \in Positions}
       \/ col = "y" /\ new_val \in {p[2] : p \in Positions}
       \/ col = "btn" /\ new_val \in {LABEL_LEFT, LABEL_RIGHT} /\ parses
       \/ col = "interval" /\ new_val \in IntervalInputs
    /\ markers' = RenumberMarkers(
          IF ~parses THEN markers
          ELSE CASE col = "x" -> [markers EXCEPT ![idx].x = new_val]
                 [] col = "y" -> [markers EXCEPT ![idx].y = new_val]
                 [] col = "btn" -> [markers EXCEPT ![idx].button =
                                       IF new_val = LABEL_LEFT THEN "left" ELSE "right"]
                 [] col = "interval" ->
                        [markers EXCEPT ![idx].interval = EditorInterval(new_val)])
    /\ marker_windows' = RenumberWindows(marker_windows)
    /\ clk_snapshot' = Shared(clk_snapshot, markers')
    /\ UNCHANGED <<vars_hk, vars_cap, vars_param, vars_clk, vars_play, vars_ref,
                   clk_result, clk_open, clk_after_stop, vars_play_aux>>
    /\ UNCHANGED <<vars_rec, last_call>>

\* load_config_file / import_state: the interval read from a file entry.
LoadedInterval(iv) == iv

\* The loop "for m in data['markers']: self.add_marker(); mm = ...": every
\* entry appended with its own x, y, button and interval.
RECURSIVE LoadMarkers(_, _)
LoadMarkers(ms, entries) ==
    IF entries = <<>> THEN ms
    ELSE LET e == Head(entries)
             m == [NewMarker(ms, <<e.x, e.y>>) EXCEPT
                      !.button = e.button, !.interval = LoadedInterval(e.interval)]
         IN LoadMarkers(RenumberMarkers(Append(ms, m)), Tail(entries))

LoadedWindows(n) == [i \in 1..n |-> [marker_id |-> i, hidden |-> FALSE]]

\* A file's "hotkeys" object that is missing or empty (a key that is missing
\* reads as None).
NoHotkeys == [a \in ActionsOf("clk") |-> None]

\* The hotkeys part of ClickerPage.load_config_file: start_stop is taken when
\* present, add_marker when present and different from the new start_stop.
LoadedClickerHotkeys(hk, file_hk) ==
    IF file_hk = NoHotkeys THEN hk
    ELSE LET h1 == IF file_hk.start_stop # None
                   THEN [hk EXCEPT !["clk"]["start_stop"] = file_hk.start_stop]
                   ELSE hk
         IN IF file_hk.add_marker # None /\ file_hk.add_marker # h1["clk"]["start_stop"]
            THEN [h1 EXCEPT !["clk"]["add_marker"] = file_hk.add_marker]
            ELSE h1

\* ClickerPage.load_config_file with the parsed file content data.
LoadConfigFile(data) ==
    /\ var_loops' = [var_loops EXCEPT !["clk"] = data.config.loops]
    /\ var_delay' = [var_delay EXCEPT !["clk"] = data.config.delay]
    /\ clk_snapshot' = Shared(clk_snapshot, markers')
    /\ UNCHANGED <<var_speed, var_gap, vars_cap, vars_clk, vars_play, vars_ref,
                   clk_result, clk_open, clk_after_stop, vars_play_aux>>
    /\ hotkeys' = LoadedClickerHotkeys(hotkeys, data.hotkeys)
    /\ RefreshHotkeys(hotkeys')
    /\ markers' = LoadMarkers(<<>>, data.markers)
    /\ marker_windows' = LoadedWindows(Len(data.markers))
    /\ UNCHANGED <<vars_rec, last_call>>

\* ClickerPage.import_state's hotkeys.update(hk)
ImportedClickerHotkeys(hk, file_hk) ==
    IF file_hk = NoHotkeys THEN hk
    ELSE [hk EXCEPT !["clk"] = [a \in ActionsOf("clk") |->
              IF file_hk[a] # None THEN file_hk[a] ELSE hk["clk"][a]]]

\* MainApp.reset_config (the user confirms): import_config(default_config())
\* on both pages, then refresh_hotkeys.
ResetConfig ==
    /\ hotkeys' = DefaultHotkeys
    /\ var_loops' = [p \in Pages |-> DEFAULT_LOOPS]
    /\ var_delay' = [p \in Pages |-> 0]
    /\ var_speed' = DEFAULT_SPEED
    /\ var_gap' = 0
    /\ clk_snapshot' = Shared(clk_snapshot, markers')
    /\ UNCHANGED <<vars_cap, vars_clk, vars_play, vars_ref, clk_result, clk_open, clk_after_stop,
                   vars_play_aux>>
    /\ markers' = <<>>
    /\ marker_windows' = <<>>
    /\ RefreshHotkeys(hotkeys')
    /\ UNCHANGED <<vars_rec, last_call>>

\* ------------------------------------------------------------ click loop

\* Faulty variant: the wait with the lower limit only
ClickWaitLowerOnly(iv) == Max2(MIN_WAIT, iv)

\* worker: time.sleep(max(0.01, min(5.0, float(m.interval))))
ClickWait(iv) == Max2(MIN_WAIT, Min2(MAX_WAIT, iv))

\* worker: btn = MouseButton.left if m.button == "left" else MouseButton.right
ClickButton(b) == IF b = "left" THEN "left" ELSE "right"

\* total_loops = loops if loops != -1 else float("inf"); idx < total_loops
BelowTotal(idx, loops) == loops = -1 \/ idx < loops

\* loop_idx += 1.  With loops = -1 the counter is only logged, never compared
\* with a finite limit, so it is kept at MaxLoops + 1 once it gets there.
NextLoopIndex(idx, loops) ==
    IF loops = -1 /\ idx > MaxLoops THEN idx ELSE idx + 1

\* Pointer and button actions among the entries of an output list.
Injected(out) == Cardinality({k \in DOMAIN out : out[k].op # "sleep"})

\* Faulty variant: start refuses an empty list only
ClickStartRefusedEmptyOnly(ms) == ms = <<>>

\* ClickRunner.start: the two refusals.
ClickStartRefused(ms) == ms = <<>> \/ is_running

\* ClickRunner.start's log line for an empty list.
MSG_NO_MARKERS == "no marker coordinates"

\* ClickRunner.start(markers, cfg); ms is the list handed over, whose elements
\* are the page's Marker objects.
ClickRunnerStart(ms, cfg) ==
    IF ClickStartRefused(ms)
    THEN /\ clk_result' = [ok |-> FALSE, msg |-> IF ms = <<>> THEN MSG_NO_MARKERS ELSE ""]
         /\ UNCHANGED <<vars_clk, clk_snapshot, clk_open, clk_after_stop>>
    ELSE /\ clk_result' = [ok |-> TRUE, msg |-> ""]
         /\ clk_snapshot' = ms
         /\ clk_open' = clk_open + 1
         /\ clk_after_stop' = 0
         /\ stop_event' = FALSE
         /\ is_running' = TRUE
         /\ clk_run' = [markers |-> ms, cfg |-> cfg]
         /\ clk_pc' = "delay"
         /\ clk_loop_idx' = 0
         /\ clk_i' = 1
         /\ clk_out' = <<>>
         /\ clk_clicks' = 0
         /\ clk_seen_stop' = FALSE

\* ClickRunner.stop
ClickRunnerStop == stop_event' = TRUE

\* ClickerPage.toggle_start (button, hotkey callback)
ToggleStart ==
    /\ IF is_running
       THEN /\ ClickRunnerStop
            /\ UNCHANGED <<is_running, clk_pc, clk_run, clk_loop_idx, clk_i, clk_out,
                           clk_clicks, clk_seen_stop, marker_windows, vars_clk_aux>>
       ELSE /\ marker_windows' =
                  [k \in DOMAIN marker_windows |-> [marker_windows[k] EXCEPT !.hidden = TRUE]]
            /\ ClickRunnerStart(markers,
                   [loops |-> var_loops["clk"], delay |-> var_delay["clk"]])
    /\ UNCHANGED <<vars_hk, vars_cap, vars_param, markers, vars_play, vars_ref, vars_play_aux,
                   vars_rec, last_call>>

\* A direct call of ClickRunner.start with the page's markers and parameters.
StartClickRunner ==
    /\ ClickRunnerStart(markers, [loops |-> var_loops["clk"], delay |-> var_delay["clk"]])
    /\ UNCHANGED <<vars_hk, vars_cap, vars_param, vars_mark, vars_play, vars_ref,
                   vars_play_aux, vars_rec, last_call>>

\* worker: "if cfg.delay > 0: time.sleep(..)", then loop_idx = 0.
ClkDelay ==
    /\ clk_pc = "delay"
    /\ clk_loop_idx' = 0
    /\ clk_pc' = "while"
    /\ UNCHANGED <<stop_event, is_running, clk_run, clk_i, clk_out, clk_clicks,
                   clk_seen_stop>>
    /\ UNCHANGED <<vars_hk, vars_cap, vars_param, vars_mark, vars_play, vars_aux>>

\* worker: "while loop_idx < total_loops and not self._stop_event.is_set()";
\* the flag is read only when the first operand is true.
ClkWhile ==
    /\ clk_pc = "while"
    /\ IF BelowTotal(clk_loop_idx, clk_run.cfg.loops)
       THEN IF stop_event
            THEN /\ clk_seen_stop' = TRUE
                 /\ clk_pc' = "finish"
                 /\ UNCHANGED <<clk_loop_idx, clk_i, clk_out>>
            ELSE /\ clk_loop_idx' = NextLoopIndex(clk_loop_idx, clk_run.cfg.loops)
                 /\ clk_i' = 1
                 /\ clk_out' = <<>>
                 /\ clk_pc' = "for"
                 /\ UNCHANGED clk_seen_stop
       ELSE /\ clk_pc' = "finish"
            /\ UNCHANGED <<clk_loop_idx, clk_i, clk_out, clk_seen_stop>>
    /\ clk_after_stop' = IF clk_pc' = "finish" THEN 0 ELSE clk_after_stop
    /\ UNCHANGED <<stop_event, is_running, clk_run, clk_clicks>>
    /\ UNCHANGED <<vars_hk, vars_cap, vars_param, vars_mark, vars_play, vars_ref,
                   clk_snapshot, clk_result, clk_open, vars_play_aux, vars_rec, last_call>>

\* Faulty variant: the flag check of the for body left out
ClkForNextIgnoresStop(flag) == "click"

\* worker: "if self._stop_event.is_set(): break", else go on to the click.
ClkForNext(flag) == IF flag THEN "loop_end" ELSE "click"

\* worker: the head of "for m in markers" and the flag check of its body.
ClkFor ==
    /\ clk_pc = "for"
    /\ IF clk_i > Len(clk_snapshot)
       THEN /\ clk_pc' = "loop_end"
            /\ UNCHANGED clk_seen_stop
       ELSE /\ clk_pc' = ClkForNext(stop_event)
            /\ clk_seen_stop' = (clk_seen_stop \/ stop_event)
    /\ clk_after_stop' = IF clk_seen_stop' /\ clk_pc' # "click" THEN 0
                         ELSE clk_after_stop
    /\ UNCHANGED <<stop_event, is_running, clk_run, clk_loop_idx, clk_i, clk_out,
                   clk_clicks>>
    /\ UNCHANGED <<vars_hk, vars_cap, vars_param, vars_mark, vars_play, vars_ref,
                   clk_snapshot, clk_result, clk_open, vars_play_aux, vars_rec, last_call>>

\* worker: position = (m.x, m.y); click(btn, 1)
ClkClick ==
    /\ clk_pc = "click"
    /\ LET m == clk_snapshot[clk_i]
       IN clk_out' = clk_out \o
              <<[op |-> "position", x |-> m.x, y |-> m.y],
                [op |-> "click", button |-> ClickButton(m.button), count |-> 1]>>
    /\ clk_clicks' = Min2(clk_clicks + 1, (MaxLoops + 1) * Len(clk_snapshot))
    /\ clk_after_stop' = IF stop_event THEN Min2(clk_after_stop + 1, 2) ELSE clk_after_stop
    /\ clk_pc' = "sleep"
    /\ UNCHANGED <<stop_event, is_running, clk_run, clk_loop_idx, clk_i, clk_seen_stop>>
    /\ UNCHANGED <<vars_hk, vars_cap, vars_param, vars_mark, vars_play, vars_ref,
                   clk_snapshot, clk_result, clk_open, vars_play_aux, vars_rec, last_call>>

\* worker: the sleep after the click.
ClkSleep ==
    /\ clk_pc = "sleep"
    /\ clk_out' = Append(clk_out,
           [op |-> "sleep", d |-> ClickWait(clk_snapshot[clk_i].interval)])
    /\ clk_i' = clk_i + 1
    /\ clk_pc' = "for"
    /\ UNCHANGED <<stop_event, is_running, clk_run, clk_loop_idx, clk_clicks,
                   clk_seen_stop>>
    /\ UNCHANGED <<vars_hk, vars_cap, vars_param, vars_mark, vars_play, vars_aux>>

\* worker: the log line after the for loop; back to the while condition.
ClkLoopEnd ==
    /\ clk_pc = "loop_end"
    /\ clk_pc' = "while"
    /\ UNCHANGED <<stop_event, is_running, clk_run, clk_loop_idx, clk_i, clk_out,
                   clk_clicks, clk_seen_stop>>
    /\ UNCHANGED <<vars_hk, vars_cap, vars_param, vars_mark, vars_play, vars_aux>>

\* worker: the final log line and the finally block.  on_end is
\* ClickerPage._on_run_end, whose first statement calls self.stop_play(),
\* a method ClickerPage does not have: the call raises and nothing follows.
ClkFinish ==
    /\ clk_pc = "finish"
    /\ is_running' = FALSE
    /\ clk_open' = clk_open - 1
    /\ clk_after_stop' = 0
    /\ clk_pc' = "idle"
    /\ UNCHANGED <<stop_event, clk_run, clk_loop_idx, clk_i, clk_out, clk_clicks,
                   clk_seen_stop, clk_snapshot, clk_result>>
    /\ UNCHANGED <<vars_hk, vars_cap, vars_param, vars_mark, vars_play, vars_ref,
                   vars_play_aux>>
    /\ UNCHANGED <<vars_rec, last_call>>

\* --------------------------------------------------------------- playback

\* Playback speeds entered in the page (the spec's start(speed > 0)).
Speeds == {1, 2}
\* Recorded times are multiples of TimeUnit, so that the division by every
\* speed of Speeds is exact.
TimeUnit == CHOOSE n \in 1..4 : /\ \A sp \in Speeds : n % sp = 0
                                /\ \A k \in 1..(n - 1) : \E sp \in Speeds : k % sp # 0
Times == {k * TimeUnit : k \in 0..MaxTick}

\* play_loop: btn = mouse.Button.left if "left" in ev.button else right
PlaybackButton(b) == IF b = "Button.left" THEN "left" ELSE "right"

\* play_loop: the branch on ev.type.
EffectOf(ev) ==
    CASE ev.type = "mouse_move" -> [op |-> "position", x |-> ev.x, y |-> ev.y]
      [] ev.type = "mouse_down" -> [op |-> "press", button |-> PlaybackButton(ev.button)]
      [] ev.type = "mouse_up" -> [op |-> "release", button |-> PlaybackButton(ev.button)]
      [] ev.type = "mouse_scroll" ->
             [op |-> "position+scroll", x |-> ev.x, y |-> ev.y, dx |-> ev.dx, dy |-> ev.dy]
      [] ev.type = "key_down" -> [op |-> "press_key", key |-> ev.key]
      [] ev.type = "key_up" -> [op |-> "release_key", key |-> ev.key]

\* Faulty variant: the wait computed from the recording's start, not from prev_t
WaitTimeFromStart(t, prev_t, speed) == t \div Max2(speed, 1)

\* play_loop: wait_time = (ev.t - prev_t) / max(speed, 1e-9); speed >= 1 here.
WaitTime(t, prev_t, speed) == (t - prev_t) \div Max2(speed, 1)

\* Faulty variant: start_playback refuses an empty recording only
PlayStartRefusedEmptyOnly(events, playing) == events = <<>>

\* RecorderPlayer.start_playback: the two refusals.
PlayStartRefused(events, playing) == events = <<>> \/ playing

\* RecorderPlayer.start_playback's result messages.
MSG_NO_DATA == "no recording data"
MSG_ALREADY_PLAYING == "playback already running"
MSG_PLAY_STARTED == "playback started"

\* RecorderPlayer.start_playback
StartPlayback(speed, loops, gap, delay) ==
    IF PlayStartRefused(recording, is_playing)
    THEN /\ play_result' = [ok |-> FALSE,
                            msg |-> IF recording = <<>> THEN MSG_NO_DATA
                                    ELSE MSG_ALREADY_PLAYING]
         /\ UNCHANGED <<stop_play_event, is_playing, play_pc, play_run, play_loop_index,
                        play_i, play_prev_t, play_wait, play_slept, play_applied,
                        play_seen_stop, play_raised, play_open, play_gaps,
                        play_after_stop>>
    ELSE /\ play_result' = [ok |-> TRUE, msg |-> MSG_PLAY_STARTED]
         /\ play_open' = play_open + 1
         /\ play_gaps' = 0
         /\ play_after_stop' = 0
         /\ stop_play_event' = FALSE
         /\ play_run' = [events |-> recording, speed |-> speed, loops |-> loops,
                         gap |-> gap, delay |-> delay]
         /\ is_playing' = TRUE
         /\ play_pc' = "delay"
         /\ play_loop_index' = 0
         /\ play_i' = 1
         /\ play_prev_t' = 0
         /\ play_wait' = 0
         /\ play_slept' = 0
         /\ play_applied' = <<>>
         /\ play_seen_stop' = FALSE
         /\ play_raised' = FALSE

\* RecorderPlayer.stop_playback (RecorderPage.stop_play)
StopPlayback == stop_play_event' = TRUE

\* RecorderPage.start_play: start_playback, then self.log(msg) with the
\* result's message, accepted or refused.
StartPlayCall(speed, loops, gap, delay) ==
    /\ StartPlayback(speed, loops, gap, delay)
    /\ last_call' = NoCall

\* RecorderPage.toggle_play (button, hotkey callback): a silent return while
\* recording, else stop_play (which logs) or start_play.
TogglePlay ==
    /\ mouse_listener \/ is_playing \/ queued_stop_play < MaxQueuedStop
    /\ IF mouse_listener
       THEN /\ last_call' = [op |-> "toggle_play", refused |-> TRUE, logged |-> FALSE]
            /\ UNCHANGED <<stop_play_event, is_playing, play_pc, play_run,
                           play_loop_index, play_i, play_prev_t, play_wait, play_slept,
                           play_applied, play_seen_stop, play_raised, vars_play_aux>>
       ELSE IF is_playing
            THEN /\ StopPlayback
                 /\ last_call' = NoCall
                 /\ UNCHANGED <<is_playing, play_pc, play_run, play_loop_index, play_i,
                                play_prev_t, play_wait, play_slept, play_applied,
                                play_seen_stop, play_raised, vars_play_aux>>
            ELSE StartPlayCall(var_speed, var_loops["rec"], var_gap, var_delay["rec"])
    /\ UNCHANGED <<recording, mouse_listener, queued_stop_play>>
    /\ UNCHANGED <<vars_hk, vars_cap, vars_param, vars_mark, vars_clk, vars_ref,
                   vars_clk_aux, vars_rec>>

\* RecorderPage.start_play called directly, whatever the player's state.
StartPlay ==
    /\ is_playing \/ queued_stop_play < MaxQueuedStop
    /\ StartPlayCall(var_speed, var_loops["rec"], var_gap, var_delay["rec"])
    /\ UNCHANGED <<recording, mouse_listener, queued_stop_play>>
    /\ UNCHANGED <<vars_hk, vars_cap, vars_param, vars_mark, vars_clk, vars_ref,
                   vars_clk_aux, vars_rec>>

\* play_loop: "if delay > 0: time.sleep(delay)", then loop_index = 0.
PlayDelay ==
    /\ play_pc = "delay"
    /\ play_loop_index' = 0
    /\ play_pc' = "while"
    /\ UNCHANGED <<recording, mouse_listener, stop_play_event, is_playing, play_run,
                   play_i, play_prev_t, play_wait, play_slept, play_applied,
                   play_seen_stop, play_raised, queued_stop_play>>
    /\ UNCHANGED <<vars_hk, vars_cap, vars_param, vars_mark, vars_clk, vars_aux>>

\* A play_loop that iterates over the recorder's current list.
events_live == recording

\* play_loop's events_copy: the list start_playback copied from the recording.
events_copy == play_run.events

\* play_loop: "while loop_index < total_loops and not _stop_play_event.is_set()",
\* then loop_index += 1 and prev_t = 0.0.
PlayWhile ==
    /\ play_pc = "while"
    /\ IF BelowTotal(play_loop_index, play_run.loops)
       THEN IF stop_play_event
            THEN /\ play_seen_stop' = TRUE
                 /\ play_pc' = "finally"
                 /\ UNCHANGED <<play_loop_index, play_i, play_prev_t, play_slept,
                                play_applied>>
            ELSE /\ play_loop_index' = NextLoopIndex(play_loop_index, play_run.loops)
                 /\ play_prev_t' = 0
                 /\ play_i' = 1
                 /\ play_slept' = 0
                 /\ play_applied' = <<>>
                 /\ play_pc' = "for"
                 /\ UNCHANGED play_seen_stop
       ELSE /\ play_pc' = "finally"
            /\ UNCHANGED <<play_loop_index, play_i, play_prev_t, play_slept,
                           play_applied, play_seen_stop>>
    /\ play_after_stop' = IF play_pc' = "finally" THEN 0 ELSE play_after_stop
    /\ UNCHANGED <<recording, mouse_listener, stop_play_event, is_playing, play_run,
                   play_wait, play_raised, queued_stop_play>>
    /\ UNCHANGED <<vars_hk, vars_cap, vars_param, vars_mark, vars_clk, vars_ref,
                   vars_clk_aux, play_result, play_open, play_gaps, vars_rec, last_call>>

\* Faulty variant: the flag check of the for body left out
PlayForNextIgnoresStop(flag) == "sleep"

\* Faulty variant: the return on a set flag passes by the finally block
PlayForNextSkipsFinally(flag) == IF flag THEN "idle" ELSE "sleep"

\* play_loop: "if self._stop_play_event.is_set(): return", else go on to the wait.
PlayForNext(flag) == IF flag THEN "finally" ELSE "sleep"

\* play_loop: the head of "for ev in events_copy" and the flag check of its body.
PlayFor ==
    /\ play_pc = "for"
    /\ IF play_i > Len(events_copy)
       THEN /\ play_pc' = "loop_end"
            /\ UNCHANGED play_seen_stop
       ELSE /\ play_pc' = PlayForNext(stop_play_event)
            /\ play_seen_stop' = (play_seen_stop \/ stop_play_event)
    /\ play_after_stop' = IF play_seen_stop' /\ play_pc' # "sleep" THEN 0
                          ELSE play_after_stop
    /\ UNCHANGED <<recording, mouse_listener, stop_play_event, is_playing, play_run,
                   play_loop_index, play_i, play_prev_t, play_wait, play_slept,
                   play_applied, play_raised, queued_stop_play>>
    /\ UNCHANGED <<vars_hk, vars_cap, vars_param, vars_mark, vars_clk, vars_ref,
                   vars_clk_aux, play_result, play_open, play_gaps, vars_rec, last_call>>

\* play_loop: wait_time is computed and handed to time.sleep, which raises
\* ValueError for a negative length; the exception leaves the try block.
PlaySleep ==
    /\ play_pc = "sleep"
    /\ LET w == WaitTime(events_copy[play_i].t, play_prev_t, play_run.speed)
       IN /\ play_wait' = w
          /\ IF w < 0
             THEN /\ play_raised' = TRUE
                  /\ play_pc' = "finally"
                  /\ UNCHANGED play_slept
             ELSE /\ play_slept' = play_slept + w
                  /\ play_pc' = "apply"
                  /\ UNCHANGED play_raised
    /\ UNCHANGED <<recording, mouse_listener, stop_play_event, is_playing, play_run,
                   play_loop_index, play_i, play_prev_t, play_applied, play_seen_stop,
                   queued_stop_play>>
    /\ UNCHANGED <<vars_hk, vars_cap, vars_param, vars_mark, vars_clk, vars_aux>>

\* play_loop: the event's effect, then prev_t = ev.t.
PlayApply ==
    /\ play_pc = "apply"
    /\ play_applied' = Append(play_applied, EffectOf(events_copy[play_i]))
    /\ play_prev_t' = events_copy[play_i].t
    /\ play_i' = play_i + 1
    /\ play_after_stop' = IF stop_play_event THEN Min2(play_after_stop + 1, 2)
                          ELSE play_after_stop
    /\ play_pc' = "for"
    /\ UNCHANGED <<recording, mouse_listener, stop_play_event, is_playing, play_run,
                   play_loop_index, play_wait, play_slept, play_seen_stop, play_raised,
                   queued_stop_play>>
    /\ UNCHANGED <<vars_hk, vars_cap, vars_param, vars_mark, vars_clk, vars_ref,
                   vars_clk_aux, play_result, play_open, play_gaps, vars_rec, last_call>>

\* play_loop: the log line after the for loop and "if gap > 0: time.sleep(gap)".
PlayLoopEnd ==
    /\ play_pc = "loop_end"
    /\ play_pc' = "while"
    /\ play_gaps' = IF play_run.gap > 0 THEN Min2(play_gaps + 1, MaxLoops + 1) ELSE play_gaps
    /\ UNCHANGED <<recording, mouse_listener, stop_play_event, is_playing, play_run,
                   play_loop_index, play_i, play_prev_t, play_wait, play_slept,
                   play_applied, play_seen_stop, play_raised, queued_stop_play,
                   play_result, play_open, play_after_stop>>
    /\ UNCHANGED <<vars_hk, vars_cap, vars_param, vars_mark, vars_clk, vars_ref,
                   vars_clk_aux>>
    /\ UNCHANGED <<vars_rec, last_call>>

\* play_loop's finally block: _is_playing = False, then _on_play_end, which
\* is RecorderPage._on_play_end: self.after(0, self.stop_play).
PlayFinally ==
    /\ play_pc = "finally"
    /\ is_playing' = FALSE
    /\ queued_stop_play' = queued_stop_play + 1
    /\ play_open' = play_open - 1
    /\ play_after_stop' = 0
    /\ play_pc' = "idle"
    /\ UNCHANGED <<recording, mouse_listener, stop_play_event, play_run,
                   play_loop_index, play_i, play_prev_t, play_wait, play_slept,
                   play_applied, play_seen_stop, play_raised, play_result, play_gaps>>
    /\ UNCHANGED <<vars_hk, vars_cap, vars_param, vars_mark, vars_clk, vars_ref,
                   vars_clk_aux>>
    /\ UNCHANGED <<vars_rec, last_call>>

\* The Tk main loop runs a queued stop_play: RecorderPage.stop_play.
RunQueuedStopPlay ==
    /\ queued_stop_play > 0
    /\ queued_stop_play' = queued_stop_play - 1
    /\ StopPlayback
    /\ UNCHANGED <<recording, mouse_listener, is_playing, play_pc, play_run,
                   play_loop_index, play_i, play_prev_t, play_wait, play_slept,
                   play_applied, play_seen_stop, play_raised>>
    /\ UNCHANGED <<vars_hk, vars_cap, vars_param, vars_mark, vars_clk, vars_aux>>

\* ------------------------------------------------------------------ Init

\* Marker entries of a persisted configuration.
FileMarkers ==
    {[x |-> p[1], y |-> p[2], button |-> b, interval |-> iv] :
        p \in Positions, b \in Buttons, iv \in IntervalInputs}
FileMarkerLists ==
    {<<>>} \cup {<<e>> : e \in FileMarkers}
           \cup {<<e1, e2>> : e1 \in {f \in FileMarkers : f.x = 5 /\ f.button = "left"},
                              e2 \in {f \in FileMarkers : f.x = 50 /\ f.button = "right"}}

\* MainApp.__init__ with the default bindings: both pages constructed,
\* import_config, ensure_no_duplicates_on_load, refresh_hotkeys.
InitHotkeys ==
    /\ hotkeys = DefaultHotkeys
    /\ hk_mapping = CombinedMapping(DefaultHotkeys)
    /\ hk_listener = CombinedMapping(DefaultHotkeys)
    /\ hk_error = FALSE
    /\ hk_leaked = {}
    /\ refresh_pc = [t \in Threads |-> "idle"]
    /\ refresh_map = [t \in Threads |-> << >>]
    /\ refresh_left = [t \in Threads |-> 0]

\* RecorderPage.__init__ / ClickerPage.__init__: no capture session; no key
\* is held.
InitCapture ==
    /\ capture_action = [p \in Pages |-> None]
    /\ cap_listener = [p \in Pages |-> FALSE]
    /\ cap_pressed = [p \in Pages |-> {}]
    /\ cap_inbox = [p \in Pages |-> <<>>]
    /\ cap_pc = [p \in Pages |-> "wait"]
    /\ cap_combo = [p \in Pages |-> None]
    /\ buttons_disabled = [p \in Pages |-> FALSE]
    /\ held = <<>>

\* RecorderPage._build_ui / ClickerPage._build_ui: the parameter fields.
InitParams ==
    /\ var_loops = [p \in Pages |-> DEFAULT_LOOPS]
    /\ var_delay = [p \in Pages |-> 0]
    /\ var_speed = DEFAULT_SPEED
    /\ var_gap = 0

\* ClickerPage.import_state at start-up: the markers of app_config.json.
InitMarkersFrom(entries) ==
    /\ markers = LoadMarkers(<<>>, entries)
    /\ marker_windows = LoadedWindows(Len(entries))

\* ClickRunner.__init__
InitClickRunner ==
    /\ stop_event = FALSE
    /\ is_running = FALSE
    /\ clk_pc = "idle"
    /\ clk_run = [markers |-> <<>>, cfg |-> [loops |-> 0, delay |-> 0]]
    /\ clk_loop_idx = 0
    /\ clk_i = 1
    /\ clk_out = <<>>
    /\ clk_clicks = 0
    /\ clk_seen_stop = FALSE
    /\ clk_snapshot = <<>>
    /\ clk_result = NoResult
    /\ clk_open = 0
    /\ clk_after_stop = 0

\* RecorderPlayer.__init__, with the recording a load_from_file or a finished
\* recording session has left.
InitRecorderPlayer(events) ==
    /\ recording = events
    /\ mouse_listener = FALSE
    /\ stop_play_event = FALSE
    /\ is_playing = FALSE
    /\ play_pc = "idle"
    /\ play_run = [events |-> <<>>, speed |-> 1, loops |-> 0, gap |-> 0, delay |-> 0]
    /\ play_loop_index = 0
    /\ play_i = 1
    /\ play_prev_t = 0
    /\ play_wait = 0
    /\ play_slept = 0
    /\ play_applied = <<>>
    /\ play_seen_stop = FALSE
    /\ play_raised = FALSE
    /\ queued_stop_play = 0
    /\ play_result = NoResult
    /\ play_open = 0
    /\ play_gaps = 0
    /\ play_after_stop = 0
    /\ clock = 0
    /\ rec_pending = [th \in RecThreads |-> {}]
    /\ stop_reported = {}
    /\ stop_record_event = FALSE
    /\ samplers = <<>>
    /\ last_call = NoCall

\* ---------------------------------------------- the marker list's machine

ConfigFilesMarkers ==
    {[markers |-> ms, config |-> [loops |-> DEFAULT_LOOPS, delay |-> 0], hotkeys |-> NoHotkeys] :
        ms \in FileMarkerLists}

InitMarkers ==
    /\ InitHotkeys
    /\ InitCapture
    /\ InitParams
    /\ InitClickRunner
    /\ InitRecorderPlayer(<<>>)
    /\ \E entries \in FileMarkerLists : InitMarkersFrom(entries)

NextMarkers ==
    \/ \E pos \in Positions : AddMarker(pos)
    \/ \E sel \in SUBSET (1..MaxMarkers) : DeleteSelected(sel)
    \/ ClearMarkers
    \/ \E mid \in 1..MaxMarkers, pos \in Positions : OnMarkerMove(mid, pos)
    \/ \E mid \in 1..MaxMarkers : OnMarkerClose(mid)
    \/ \E idx \in 1..MaxMarkers, parses \in BOOLEAN :
          \/ \E v \in {p[1] : p \in Positions} : CommitEditor(idx, "x", parses, v)
          \/ \E v \in {p[2] : p \in Positions} : CommitEditor(idx, "y", parses, v)
          \/ \E v \in {LABEL_LEFT, LABEL_RIGHT} : CommitEditor(idx, "btn", parses, v)
          \/ \E v \in IntervalInputs : CommitEditor(idx, "interval", parses, v)
    \/ \E data \in ConfigFilesMarkers : LoadConfigFile(data)
    \/ ResetConfig

SpecMarkers == InitMarkers /\ [][NextMarkers]_vars

\* The structural operations on the marker list, and the drag of a window.
NextList ==
    \/ \E pos \in Positions : AddMarker(pos)
    \/ \E sel \in SUBSET (1..MaxMarkers) : DeleteSelected(sel)
    \/ \E mid \in 1..MaxMarkers : OnMarkerClose(mid)
    \/ ClearMarkers
    \/ \E mid \in 1..MaxMarkers, pos \in Positions : OnMarkerMove(mid, pos)

SpecList == InitMarkers /\ [][NextList]_vars

\* ------------------------------------- the two engines' machine

\* The event kinds a recording holds, by position in the recording.
EventShapes ==
    <<[type |-> "mouse_down", x |-> 10, y |-> 10, button |-> "Button.left"],
      [type |-> "mouse_up", x |-> 10, y |-> 10, button |-> "Button.left"],
      [type |-> "mouse_move", x |-> 20, y |-> 20],
      [type |-> "key_down", key |-> "a"]>>
EventAt(shape, t) == [k \in (DOMAIN shape) \cup {"t"} |-> IF k = "t" THEN t ELSE shape[k]]
ShapeAt(k) == EventShapes[((k - 1) % Len(EventShapes)) + 1]
\* Recordings of 1..MaxEvents events with every choice of time stamps, in any
\* order (a loaded file, or listener threads that append out of order).
Recordings ==
    UNION {{[k \in 1..n |-> EventAt(ShapeAt(k), ts[k])] : ts \in [1..n -> Times]} :
              n \in 1..MaxEvents}

LoopCounts == (0..MaxLoops) \cup {-1}

\* The spec's two example scenarios.
ExampleRecording ==
    <<EventAt(ShapeAt(1), 0), EventAt(ShapeAt(2), TimeUnit)>>
ExampleMarkers ==
    <<[x |-> 5, y |-> 5, button |-> "left", interval |-> 2000],
      [x |-> 50, y |-> 50, button |-> "right", interval |-> 1000]>>

\* The recorder page holds a recording, the clicker page has no marker.
InitPlayOnly ==
    /\ \E events \in Recordings : InitRecorderPlayer(events)
    /\ InitMarkersFrom(<<>>)
    /\ \E l \in LoopCounts, d \in {0, 1} :
          /\ var_loops = [rec |-> l, clk |-> DEFAULT_LOOPS]
          /\ var_delay = [rec |-> d, clk |-> 0]
    /\ var_speed \in Speeds
    /\ var_gap \in {0, 1}

\* The clicker page has markers, the recorder page holds no recording.
InitClickOnly ==
    /\ InitRecorderPlayer(<<>>)
    /\ \E entries \in FileMarkerLists \ {<<>>} : InitMarkersFrom(entries)
    /\ \E l \in LoopCounts, d \in {0, 1} :
          /\ var_loops = [rec |-> DEFAULT_LOOPS, clk |-> l]
          /\ var_delay = [rec |-> 0, clk |-> d]
    /\ var_speed = DEFAULT_SPEED
    /\ var_gap = 0

\* Both pages hold the example data; every run has MaxLoops iterations.
InitBoth ==
    /\ InitRecorderPlayer(ExampleRecording)
    /\ InitMarkersFrom(ExampleMarkers)
    /\ var_loops = [p \in Pages |-> MaxLoops]
    /\ var_delay = [p \in Pages |-> 0]
    /\ var_speed \in Speeds
    /\ var_gap = 0

InitEngines ==
    /\ InitHotkeys
    /\ InitCapture
    /\ InitClickRunner
    /\ (InitPlayOnly \/ InitClickOnly \/ InitBoth)

NextEngines ==
    \/ ToggleStart
    \/ StartClickRunner
    \/ ClkDelay
    \/ ClkWhile
    \/ ClkFor
    \/ ClkClick
    \/ ClkSleep
    \/ ClkLoopEnd
    \/ ClkFinish
    \/ TogglePlay
    \/ StartPlay
    \/ PlayDelay
    \/ PlayWhile
    \/ PlayFor
    \/ PlaySleep
    \/ PlayApply
    \/ PlayLoopEnd
    \/ PlayFinally
    \/ RunQueuedStopPlay

SpecEngines == InitEngines /\ [][NextEngines]_vars

\* ---------------------------------------- runs that are asked to stop

\* One page holds the example data, with every loop count; the other is empty.
InitStop ==
    /\ InitHotkeys
    /\ InitCapture
    /\ InitClickRunner
    /\ \/ InitRecorderPlayer(ExampleRecording) /\ InitMarkersFrom(<<>>)
       \/ InitRecorderPlayer(<<>>) /\ InitMarkersFrom(ExampleMarkers)
    /\ \E l \in LoopCounts : var_loops = [p \in Pages |-> l]
    /\ var_delay = [p \in Pages |-> 0]
    /\ var_speed = DEFAULT_SPEED
    /\ var_gap = 0

\* The steps of ClickRunner's worker thread.
ClkTask ==
    ClkDelay \/ ClkWhile \/ ClkFor \/ ClkClick \/ ClkSleep \/ ClkLoopEnd \/ ClkFinish

\* The steps of the playback thread.
PlayTask ==
    PlayDelay \/ PlayWhile \/ PlayFor \/ PlaySleep \/ PlayApply \/ PlayLoopEnd \/ PlayFinally

NextStop ==
    \/ ToggleStart
    \/ TogglePlay
    \/ ClkTask
    \/ PlayTask
    \/ RunQueuedStopPlay

SpecStop == InitStop /\ [][NextStop]_vars

\* The threads are scheduled fairly and every sleep returns; the Tk main
\* loop runs the callbacks queued with after(0, ...).  The user's toggles
\* are under no obligation.
SpecStopFair ==
    /\ SpecStop
    /\ WF_vars(ClkTask)
    /\ WF_vars(PlayTask)
    /\ WF_vars(RunQueuedStopPlay)

\* ------------------------------- a click run with the list being edited

InitSnapshot ==
    /\ InitHotkeys
    /\ InitCapture
    /\ InitClickRunner
    /\ InitRecorderPlayer(<<>>)
    /\ InitMarkersFrom(ExampleMarkers)
    /\ \E l \in 1..MaxLoops : var_loops = [rec |-> DEFAULT_LOOPS, clk |-> l]
    /\ var_delay = [p \in Pages |-> 0]
    /\ var_speed = DEFAULT_SPEED
    /\ var_gap = 0

\* An edit of the page's markers made while a click run is alive.
EditDuringRun ==
    /\ is_running
    /\ \/ AddMarker(<<50, 50>>)
       \/ \E mid \in 1..MaxMarkers : DeleteSelected({mid})
       \/ \E mid \in 1..MaxMarkers : OnMarkerMove(mid, <<50, 50>>)
       \/ \E mid \in 1..MaxMarkers : OnMarkerClose(mid)
       \/ CommitEditor(1, "x", TRUE, 50)
       \/ CommitEditor(1, "interval", TRUE, 1000)

NextSnapshot ==
    \/ ToggleStart
    \/ ClkDelay
    \/ ClkWhile
    \/ ClkFor
    \/ ClkClick
    \/ ClkSleep
    \/ ClkLoopEnd
    \/ ClkFinish
    \/ EditDuringRun

SpecSnapshot == InitSnapshot /\ [][NextSnapshot]_vars

\* --------------------------------------------------------------- recording

\* Faulty variant: toggle_record does not look at the player.
ToggleRecordNeverRefused == FALSE

\* RecorderPage.toggle_record: "if self.recorder.is_playing(): return".
ToggleRecordRefused == is_playing

\* Sampler threads followed at a time; of more, the oldest is left out.
MaxSamplers == 2

\* start_recording's last statement starts a sampler thread, at the head of
\* its loop.  cur tells the sampler of the recording in progress from the
\* samplers which earlier recordings started.
SpawnSampler(ss) ==
    LET old == [i \in DOMAIN ss |-> [ss[i] EXCEPT !.cur = FALSE]]
        kept == IF Len(old) < MaxSamplers THEN old ELSE Tail(old)
    IN Append(kept, [pc |-> "check", cur |-> TRUE])

\* RecorderPlayer.start_recording: reset_recording, _stop_record_event is
\* cleared, the listeners start and the sampler thread is started.
StartRecording ==
    /\ recording' = <<>>
    /\ mouse_listener' = TRUE
    /\ clock' = 0
    /\ stop_reported' = {}
    /\ stop_record_event' = FALSE
    /\ samplers' = SpawnSampler(samplers)
    /\ UNCHANGED rec_pending

\* RecorderPlayer.stop_recording: the listeners are stopped and dropped, the
\* event count is reported. A callback that is running is not waited for.
StopRecording ==
    /\ mouse_listener' = FALSE
    /\ stop_reported' = {Len(recording)}
    /\ stop_record_event' = TRUE
    /\ UNCHANGED <<recording, clock, rec_pending, samplers>>

\* RecorderPage.toggle_record (button, hotkey callback): a silent return
\* while playing, else stop_record or start_record, which log the result.
ToggleRecord ==
    /\ IF ToggleRecordRefused
       THEN /\ last_call' = [op |-> "toggle_record", refused |-> TRUE, logged |-> FALSE]
            /\ UNCHANGED <<recording, mouse_listener, vars_rec>>
       ELSE /\ last_call' = NoCall
            /\ IF mouse_listener THEN StopRecording ELSE StartRecording
    /\ UNCHANGED <<stop_play_event, is_playing, play_pc, play_run, play_loop_index,
                   play_i, play_prev_t, play_wait, play_slept, play_applied,
                   play_seen_stop, play_raised, queued_stop_play>>
    /\ UNCHANGED <<vars_hk, vars_cap, vars_param, vars_mark, vars_clk, vars_ref,
                   vars_clk_aux, vars_play_aux>>

\* A listener callback of a running recording: _record_event appends an event
\* stamped with the time since the start. The mouse listener, the keyboard
\* listener and the sampler are three threads, each reading the clock and
\* then appending: the stamps are in no fixed order.
RecordEvent ==
    /\ mouse_listener
    /\ Len(recording) < MaxEvents
    /\ \E t \in Times :
          recording' = Append(recording, EventAt(ShapeAt(Len(recording) + 1), t))
    /\ UNCHANGED <<mouse_listener, stop_play_event, is_playing, play_pc, play_run,
                   play_loop_index, play_i, play_prev_t, play_wait, play_slept,
                   play_applied, play_seen_stop, play_raised, queued_stop_play>>
    /\ UNCHANGED <<vars_hk, vars_cap, vars_param, vars_mark, vars_clk, vars_aux>>

\* The pointer buttons the pointer listener reports.
RecordedButtons == {"left", "right", "middle"}

\* str(button) of a pynput mouse button.
ButtonStr(b) == CASE b = "left" -> "Button.left"
                  [] b = "right" -> "Button.right"
                  [] b = "middle" -> "Button.middle"

\* RecorderPlayer._on_mouse_click(x, y, button, pressed) at the clock's time.
OnMouseClick(b, pressed) ==
    /\ mouse_listener
    /\ Len(recording) < MaxEvents
    /\ recording' = Append(recording,
                           [t |-> clock, type |-> IF pressed THEN "mouse_down" ELSE "mouse_up",
                            x |-> 10, y |-> 10, button |-> ButtonStr(b)])
    /\ UNCHANGED <<mouse_listener, stop_play_event, is_playing, play_pc, play_run,
                   play_loop_index, play_i, play_prev_t, play_wait, play_slept,
                   play_applied, play_seen_stop, play_raised, queued_stop_play>>
    /\ UNCHANGED <<vars_hk, vars_cap, vars_param, vars_mark, vars_clk, vars_aux>>

\* -------------------------------------------------- the recording threads

\* The event a recording thread builds: the pointer listener and the sampler
\* a mouse_move, the key listener a key_down.
ThreadShape(th) == IF th = "key" THEN EventShapes[4] ELSE EventShapes[3]

\* _last_mouse_pos is not None: set by _on_mouse_move after its append,
\* cleared by reset_recording together with the events.
LastMousePosSet == \E k \in DOMAIN recording : recording[k].type = "mouse_move"

\* time.time() advances while a recording runs.
Tick ==
    /\ mouse_listener
    /\ clock < MaxTick * TimeUnit
    /\ clock' = clock + TimeUnit
    /\ UNCHANGED <<rec_pending, stop_reported, stop_record_event, samplers, last_call>>
    /\ UNCHANGED <<vars_hk, vars_cap, vars_param, vars_mark, vars_clk, vars_play,
                   vars_ref, vars_clk_aux, vars_play_aux>>

\* Thread th computes "now = time.time() - self._start_time": a listener
\* callback of the running recording, or a pass of the sampler's loop that
\* found _stop_record_event clear and a pointer position known.
RecRead(th) ==
    /\ mouse_listener
    /\ rec_pending[th] = {}
    /\ th = "sampler" => LastMousePosSet
    /\ rec_pending' = [rec_pending EXCEPT ![th] = {clock}]
    /\ UNCHANGED <<clock, stop_reported, stop_record_event, samplers, last_call>>
    /\ UNCHANGED <<vars_hk, vars_cap, vars_param, vars_mark, vars_clk, vars_play,
                   vars_ref, vars_clk_aux, vars_play_aux>>

\* Thread th's _record_event: the event with the stamp read before is
\* appended to self.recording.events as it is now.
RecAppend(th) ==
    /\ rec_pending[th] # {}
    /\ Len(recording) < MaxEvents
    /\ \E t \in rec_pending[th] :
          recording' = Append(recording, EventAt(ThreadShape(th), t))
    /\ rec_pending' = [rec_pending EXCEPT ![th] = {}]
    /\ UNCHANGED <<clock, stop_reported, stop_record_event, samplers, last_call>>
    /\ UNCHANGED <<mouse_listener, stop_play_event, is_playing, play_pc, play_run,
                   play_loop_index, play_i, play_prev_t, play_wait, play_slept,
                   play_applied, play_seen_stop, play_raised, queued_stop_play>>
    /\ UNCHANGED <<vars_hk, vars_cap, vars_param, vars_mark, vars_clk, vars_ref,
                   vars_clk_aux, vars_play_aux>>

\* sampler: "while not self._stop_record_event.is_set()", the thread ending
\* on a set flag, and "if self._last_mouse_pos is not None".
SamplerCheck(i) ==
    /\ i \in DOMAIN samplers /\ samplers[i].pc = "check"
    /\ samplers' = IF stop_record_event THEN RemoveAt(samplers, i)
                   ELSE [samplers EXCEPT ![i].pc =
                            IF LastMousePosSet THEN "append" ELSE "sleep"]
    /\ UNCHANGED <<clock, rec_pending, stop_reported, stop_record_event, last_call>>
    /\ UNCHANGED <<vars_hk, vars_cap, vars_param, vars_mark, vars_clk, vars_play,
                   vars_ref, vars_clk_aux, vars_play_aux>>

\* sampler: now = time.time() - self._start_time; _record_event(mouse_move).
SamplerAppend(i) ==
    /\ i \in DOMAIN samplers /\ samplers[i].pc = "append"
    /\ Len(recording) < MaxEvents
    /\ recording' = Append(recording, EventAt(ThreadShape("sampler"), clock))
    /\ samplers' = [samplers EXCEPT ![i].pc = "sleep"]
    /\ UNCHANGED <<clock, rec_pending, stop_reported, stop_record_event, last_call>>
    /\ UNCHANGED <<mouse_listener, stop_play_event, is_playing, play_pc, play_run,
                   play_loop_index, play_i, play_prev_t, play_wait, play_slept,
                   play_applied, play_seen_stop, play_raised, queued_stop_play>>
    /\ UNCHANGED <<vars_hk, vars_cap, vars_param, vars_mark, vars_clk, vars_ref,
                   vars_clk_aux, vars_play_aux>>

\* sampler: time.sleep(self.sample_interval) returns.
SamplerWake(i) ==
    /\ i \in DOMAIN samplers /\ samplers[i].pc = "sleep"
    /\ samplers' = [samplers EXCEPT ![i].pc = "check"]
    /\ UNCHANGED <<clock, rec_pending, stop_reported, stop_record_event, last_call>>
    /\ UNCHANGED <<vars_hk, vars_cap, vars_param, vars_mark, vars_clk, vars_play,
                   vars_ref, vars_clk_aux, vars_play_aux>>

\* ------------------------------------------- the recorder page's machine

\* The page holds no recording; the loop count is the default or -1 (unbounded).
InitRecorder ==
    /\ InitHotkeys
    /\ InitCapture
    /\ InitClickRunner
    /\ InitRecorderPlayer(<<>>)
    /\ InitMarkersFrom(<<>>)
    /\ \E l \in {DEFAULT_LOOPS, -1} : var_loops = [rec |-> l, clk |-> DEFAULT_LOOPS]
    /\ var_delay = [p \in Pages |-> 0]
    /\ var_speed = DEFAULT_SPEED
    /\ var_gap = 0

NextRecorder ==
    \/ ToggleRecord
    \/ RecordEvent
    \/ TogglePlay
    \/ PlayDelay
    \/ PlayWhile
    \/ PlayFor
    \/ PlaySleep
    \/ PlayApply
    \/ PlayLoopEnd
    \/ PlayFinally
    \/ RunQueuedStopPlay

SpecRecorder == InitRecorder /\ [][NextRecorder]_vars

\* The recording side alone: the record toggle, the clock and the threads.
NextStamps ==
    \/ ToggleRecord
    \/ Tick
    \/ \E th \in RecThreads : RecRead(th)
    \/ \E th \in RecThreads : RecAppend(th)

SpecStamps == InitRecorder /\ [][NextStamps]_vars

\* The record toggle, the pointer listener's moves and the sampler threads.
NextSampler ==
    \/ ToggleRecord
    \/ Tick
    \/ RecRead("mouse")
    \/ RecAppend("mouse")
    \/ \E i \in 1..MaxSamplers : SamplerCheck(i)
    \/ \E i \in 1..MaxSamplers : SamplerAppend(i)
    \/ \E i \in 1..MaxSamplers : SamplerWake(i)

SpecSampler == InitRecorder /\ [][NextSampler]_vars

\* Clicks of every button recorded, then played back.
NextButtons ==
    \/ ToggleRecord
    \/ \E b \in RecordedButtons, pressed \in BOOLEAN : OnMouseClick(b, pressed)
    \/ TogglePlay
    \/ PlayDelay
    \/ PlayWhile
    \/ PlayFor
    \/ PlaySleep
    \/ PlayApply
    \/ PlayLoopEnd
    \/ PlayFinally
    \/ RunQueuedStopPlay

SpecButtons == InitRecorder /\ [][NextButtons]_vars

\* ------------------------------------------------- loading from files

\* RecorderPlayer.load_from_file with a file whose entries all convert: the
\* recording is replaced by the converted list.
LoadFromFile(events) ==
    /\ recording' = events
    /\ stop_reported' = {}
    /\ UNCHANGED <<mouse_listener, stop_play_event, is_playing, play_pc, play_run,
                   play_loop_index, play_i, play_prev_t, play_wait, play_slept,
                   play_applied, play_seen_stop, play_raised, queued_stop_play>>
    /\ UNCHANGED <<clock, rec_pending, stop_record_event, samplers, last_call>>
    /\ UNCHANGED <<vars_hk, vars_cap, vars_param, vars_mark, vars_clk, vars_ref,
                   vars_clk_aux, vars_play_aux>>

\* load_from_file with an entry Event(**e) cannot take: the list
\* comprehension raises before the assignment to recording.events.
LoadFromFileMalformed ==
    /\ last_call' = [op |-> "load_from_file raised", refused |-> FALSE, logged |-> FALSE]
    /\ UNCHANGED <<vars_hk, vars_cap, vars_param, vars_mark, vars_clk, vars_play, vars_ref,
                   vars_clk_aux, vars_play_aux, vars_rec>>

\* ClickerPage.load_config_file with a file whose k-th marker entry has an
\* "x" that int() cannot convert: the markers are cleared, the run parameters
\* and bindings set and the dispatcher refreshed, the entries before k loaded,
\* and add_marker has appended its default marker at pos when int() raises.
LoadConfigFileMalformed(data, k, pos) ==
    /\ k \in DOMAIN data.markers
    /\ var_loops' = [var_loops EXCEPT !["clk"] = data.config.loops]
    /\ var_delay' = [var_delay EXCEPT !["clk"] = data.config.delay]
    /\ hotkeys' = LoadedClickerHotkeys(hotkeys, data.hotkeys)
    /\ RefreshHotkeys(hotkeys')
    /\ LET loaded == LoadMarkers(<<>>, SubSeq(data.markers, 1, k - 1))
       IN markers' = RenumberMarkers(Append(loaded, NewMarker(loaded, pos)))
    /\ marker_windows' = LoadedWindows(k)
    /\ clk_snapshot' = Shared(clk_snapshot, markers')
    /\ last_call' = [op |-> "load_config_file raised", refused |-> FALSE, logged |-> FALSE]
    /\ UNCHANGED <<var_speed, var_gap, vars_cap, vars_clk, vars_play, vars_ref,
                   clk_result, clk_open, clk_after_stop, vars_play_aux, vars_rec>>

\* Clicker configuration files: no or one marker, two loop counts, with and
\* without a start_stop binding.
LoadFiles ==
    {[markers |-> ms, config |-> [loops |-> l, delay |-> 0],
      hotkeys |-> [start_stop |-> h, add_marker |-> None]] :
        ms \in {<<>>, <<[x |-> 50, y |-> 50, button |-> "right", interval |-> 1000]>>},
        l \in {DEFAULT_LOOPS, 3}, h \in {None, "<f8>"}}

NextLoad ==
    \/ \E pos \in Positions : AddMarker(pos)
    \/ \E data \in LoadFiles : LoadConfigFile(data)
    \/ \E data \in LoadFiles, k \in 1..MaxMarkers, pos \in Positions :
          LoadConfigFileMalformed(data, k, pos)
    \/ \E events \in Recordings : LoadFromFile(events)
    \/ LoadFromFileMalformed

SpecLoad == InitMarkers /\ [][NextLoad]_vars

\* ------------------------------------------- loading during a playback

\* Recording files as long as the longest recording, with other events than
\* the recording made here has at the same places.
ReplayFiles ==
    {[k \in 1..MaxEvents |-> EventAt(ShapeAt(k + s), (k - 1) * TimeUnit)] : s \in 1..2}

InitReplay ==
    /\ InitHotkeys
    /\ InitCapture
    /\ InitClickRunner
    /\ InitRecorderPlayer(ExampleRecording)
    /\ InitMarkersFrom(<<>>)
    /\ var_loops = [rec |-> 2, clk |-> DEFAULT_LOOPS]
    /\ var_delay = [p \in Pages |-> 0]
    /\ var_speed \in Speeds
    /\ var_gap = 0

NextReplay ==
    \/ TogglePlay
    \/ \E events \in ReplayFiles : LoadFromFile(events)
    \/ PlayDelay
    \/ PlayWhile
    \/ PlayFor
    \/ PlaySleep
    \/ PlayApply
    \/ PlayLoopEnd
    \/ PlayFinally
    \/ RunQueuedStopPlay

SpecReplay == InitReplay /\ [][NextReplay]_vars

\* --------------------------------------- the two pages' capture machine

\* The "hotkeys" object of a clicker configuration file.
HotkeyFiles ==
    {[markers |-> <<>>, config |-> [loops |-> DEFAULT_LOOPS, delay |-> 0], hotkeys |-> h] :
        h \in [start_stop : {None, "<f9>", "<f6>"}, add_marker : {None, "<f7>"}]}

InitHotkey ==
    /\ InitHotkeys
    /\ InitCapture
    /\ InitParams
    /\ InitClickRunner
    /\ InitRecorderPlayer(<<>>)
    /\ InitMarkersFrom(<<>>)

NextHotkey ==
    \/ \E p \in Pages : \E a \in ActionsOf(p) : BeginCapture(p, a)
    \/ \E k \in {K_ctrl_l, KC_a} : KeyDown(k)
    \/ \E k \in {K_ctrl_l, K_esc} : KeyUp(k)
    \/ \E p \in Pages : CapOnPress(p)
    \/ \E p \in Pages : CapCommit(p)
    \/ \E p \in Pages : CapOnRelease(p)
    \/ \E data \in HotkeyFiles : LoadConfigFile(data)
    \/ ResetConfig

SpecHotkey == InitHotkey /\ [][NextHotkey]_vars

\* ------------------------------------------- duplicate fix-up at start-up

\* ensure_no_duplicates_on_load: the preferred pools and the fallback list.
pools_clk == <<"<f6>", "<f7>", "<f8>", "<f9>", "<f10>", "<f11>", "<f12>">>
pools_rec == <<"<f9>", "<f10>", "<f11>", "<f12>", "<f6>", "<f7>", "<f8>">>
FallbackChords == <<"<ctrl>+<alt>+r>", "<ctrl>+<alt>+p>", "<ctrl>+<alt>+m>">>

\* "for c in pool: if c not in used": the first element not in used, or None.
FirstFree(pool, used) ==
    IF \E i \in DOMAIN pool : pool[i] \notin used
    THEN pool[CHOOSE i \in DOMAIN pool :
                 /\ pool[i] \notin used
                 /\ \A j \in 1..(i - 1) : pool[j] \in used]
    ELSE None

\* An add_or_fix that gives up at once and keeps the colliding chord.
AddOrFixGivesUp(combo, preferred_pool, used) == combo

\* add_or_fix(combo, preferred_pool) with the chords used so far.
AddOrFix(combo, preferred_pool, used) ==
    IF combo \notin used THEN combo
    ELSE IF FirstFree(preferred_pool, used) # None THEN FirstFree(preferred_pool, used)
    ELSE IF FirstFree(FallbackChords, used) # None THEN FirstFree(FallbackChords, used)
    ELSE combo

\* ensure_no_duplicates_on_load on the tables hk: add_marker, start_stop,
\* toggle_record, toggle_play in this order, each result added to used.
EnsureNoDuplicatesOnLoad(hk) ==
    LET c1 == AddOrFix(hk["clk"]["add_marker"], pools_clk, {})
        c2 == AddOrFix(hk["clk"]["start_stop"], pools_clk, {c1})
        c3 == AddOrFix(hk["rec"]["toggle_record"], pools_rec, {c1, c2})
        c4 == AddOrFix(hk["rec"]["toggle_play"], pools_rec, {c1, c2, c3})
    IN [rec |-> [toggle_record |-> c3, toggle_play |-> c4],
        clk |-> [start_stop |-> c2, add_marker |-> c1]]

\* Chords found in the "hotkeys" objects of the application's config file.
StartupChords == {"<f6>", "<f7>", "<f9>", "<f10>", "a"}
StartupTables == [Pages -> UNION {[ActionsOf(p) -> StartupChords] : p \in Pages}]

\* MainApp.__init__ before import_config: the pages hold the default
\* bindings, the hotkey manager has no mapping and no listener.
InitStartup ==
    /\ hotkeys = DefaultHotkeys
    /\ hk_mapping = << >>
    /\ hk_listener = NoListener
    /\ hk_error = FALSE
    /\ hk_leaked = {}
    /\ refresh_pc = [t \in Threads |-> "idle"]
    /\ refresh_map = [t \in Threads |-> << >>]
    /\ refresh_left = [t \in Threads |-> 0]
    /\ InitCapture
    /\ InitParams
    /\ InitClickRunner
    /\ InitRecorderPlayer(<<>>)
    /\ InitMarkersFrom(<<>>)

\* MainApp.__init__ from import_config on: both pages take the file's
\* bindings, the fix-up runs and the dispatcher is installed.
MainAppInit(file_hk) ==
    /\ hk_listener = NoListener /\ hk_mapping = << >>
    /\ \A p \in Pages : DOMAIN file_hk[p] = ActionsOf(p)
    /\ hotkeys' = EnsureNoDuplicatesOnLoad(file_hk)
    /\ RefreshHotkeys(hotkeys')
    /\ UNCHANGED <<vars_cap, vars_param, vars_mark, vars_clk, vars_play, vars_aux>>

NextStartup == \E file_hk \in StartupTables : MainAppInit(file_hk)

SpecStartup == InitStartup /\ [][NextStartup]_vars

\* ------------------------------- refresh_hotkeys with a failing install

\* MainApp.refresh_hotkeys called on its own (at start-up, by an import);
\* ok: GlobalHotKeys(...) and start() raise nothing.
RefreshHotkeysCall(ok) ==
    /\ SetMappingOutcome(CombinedMapping(hotkeys), ok)
    /\ UNCHANGED <<hotkeys, vars_cap, vars_param, vars_mark, vars_clk, vars_play, vars_aux>>

NextInstall ==
    \/ \E p \in Pages : \E a \in ActionsOf(p) : BeginCapture(p, a)
    \/ KeyDown(KC_a)
    \/ KeyUp(K_esc)
    \/ \E p \in Pages : CapOnPress(p)
    \/ \E p \in Pages : CapCommit(p)
    \/ \E p \in Pages : CapOnRelease(p)
    \/ \E ok \in BOOLEAN : RefreshHotkeysCall(ok)
    \/ \E data \in HotkeyFiles : LoadConfigFile(data)

SpecInstall == InitHotkey /\ [][NextInstall]_vars

\* ------------------------- refresh_hotkeys called from several threads

\* _end_capture of page p running in p's capture listener thread: the session
\* fields are cleared and the thread goes on to its two refresh_hotkeys calls
\* (one by _notify_hotkeys_changed, one direct).
EndCaptureThread(p) ==
    /\ cap_listener' = [cap_listener EXCEPT ![p] = FALSE]
    /\ cap_inbox' = [cap_inbox EXCEPT ![p] = <<>>]
    /\ cap_pressed' = [cap_pressed EXCEPT ![p] = {}]
    /\ buttons_disabled' = [buttons_disabled EXCEPT ![p] = FALSE]
    /\ capture_action' = [capture_action EXCEPT ![p] = None]
    /\ cap_pc' = [cap_pc EXCEPT ![p] = "wait"]
    /\ refresh_pc' = [refresh_pc EXCEPT ![p] = "stop"]
    /\ refresh_left' = [refresh_left EXCEPT ![p] = 2]
    /\ UNCHANGED <<hk_listener, hk_mapping, hk_error, hk_leaked, refresh_map>>

\* on_press after the check, in the capture listener thread: the binding is
\* written and _end_capture entered.
CapCommitThread(p) ==
    /\ cap_listener[p] /\ cap_pc[p] = "commit"
    /\ refresh_pc[p] = "idle"
    /\ hotkeys' = [hotkeys EXCEPT ![p][capture_action[p]] = cap_combo[p]]
    /\ EndCaptureThread(p)
    /\ UNCHANGED <<cap_combo, held>>
    /\ UNCHANGED <<vars_param, vars_mark, vars_clk, vars_play, vars_clk_aux,
                   vars_play_aux>>
    /\ UNCHANGED <<vars_rec, last_call>>

\* on_release in the capture listener thread: Esc enters _end_capture.
CapOnReleaseThread(p) ==
    /\ cap_listener[p] /\ cap_pc[p] = "wait"
    /\ refresh_pc[p] = "idle"
    /\ cap_inbox[p] # <<>> /\ Head(cap_inbox[p]).kind = "release"
    /\ LET k == Head(cap_inbox[p]).key
       IN IF IsModifier(k)
          THEN /\ cap_pressed' = [cap_pressed EXCEPT ![p] = @ \ {ModToken(k)}]
               /\ cap_inbox' = [cap_inbox EXCEPT ![p] = Tail(@)]
               /\ UNCHANGED <<vars_hk, vars_ref, capture_action, cap_listener, cap_pc,
                              buttons_disabled>>
          ELSE IF k = K_esc
          THEN /\ EndCaptureThread(p)
               /\ UNCHANGED hotkeys
          ELSE /\ cap_inbox' = [cap_inbox EXCEPT ![p] = Tail(@)]
               /\ UNCHANGED <<vars_hk, vars_ref, capture_action, cap_listener,
                              cap_pressed, cap_pc, buttons_disabled>>
    /\ UNCHANGED <<cap_combo, held>>
    /\ UNCHANGED <<vars_param, vars_mark, vars_clk, vars_play, vars_clk_aux,
                   vars_play_aux>>
    /\ UNCHANGED <<vars_rec, last_call>>

\* refresh_hotkeys in thread t up to set_mapping's "self.mapping = mapping":
\* the combined mapping is built from the binding tables, stop() stops the
\* listener the manager refers to and clears the reference.
RefreshStop(t) ==
    /\ refresh_pc[t] = "stop"
    /\ hk_listener' = NoListener
    /\ hk_mapping' = CombinedMapping(hotkeys)
    /\ refresh_map' = [refresh_map EXCEPT ![t] = CombinedMapping(hotkeys)]
    /\ refresh_pc' = [refresh_pc EXCEPT ![t] = "install"]
    /\ UNCHANGED <<hotkeys, hk_error, hk_leaked, refresh_left>>
    /\ UNCHANGED <<vars_cap, vars_param, vars_mark, vars_clk, vars_play, vars_clk_aux,
                   vars_play_aux>>
    /\ UNCHANGED <<vars_rec, last_call>>

\* The rest of set_mapping in thread t: "self.listener = GlobalHotKeys(
\* self.mapping)" and start(). A listener another thread installed in between
\* loses its only reference and keeps running.
RefreshInstall(t) ==
    /\ refresh_pc[t] = "install"
    /\ IF DOMAIN hk_mapping = {}
       THEN UNCHANGED <<hk_listener, hk_leaked>>
       ELSE /\ hk_listener' = hk_mapping
            /\ hk_leaked' = IF hk_listener = NoListener THEN hk_leaked
                            ELSE hk_leaked \cup {hk_listener}
    /\ refresh_left' = [refresh_left EXCEPT ![t] = @ - 1]
    /\ refresh_pc' = [refresh_pc EXCEPT ![t] = IF refresh_left[t] > 1 THEN "stop" ELSE "idle"]
    /\ UNCHANGED <<hotkeys, hk_mapping, hk_error, refresh_map>>
    /\ UNCHANGED <<vars_cap, vars_param, vars_mark, vars_clk, vars_play, vars_clk_aux,
                   vars_play_aux>>
    /\ UNCHANGED <<vars_rec, last_call>>

\* MainApp.reset_config on the foreground thread up to the "self.mapping =
\* mapping" of its last refresh_hotkeys call: both pages have imported the
\* defaults (each import refreshed once), the listener is stopped.
ResetConfigStop ==
    /\ refresh_pc["fg"] = "idle"
    /\ hotkeys' = DefaultHotkeys
    /\ var_loops' = [p \in Pages |-> DEFAULT_LOOPS]
    /\ var_delay' = [p \in Pages |-> 0]
    /\ var_speed' = DEFAULT_SPEED
    /\ var_gap' = 0
    /\ markers' = <<>>
    /\ marker_windows' = <<>>
    /\ clk_snapshot' = Shared(clk_snapshot, markers')
    /\ hk_listener' = NoListener
    /\ hk_mapping' = CombinedMapping(hotkeys')
    /\ refresh_map' = [refresh_map EXCEPT !["fg"] = CombinedMapping(hotkeys')]
    /\ refresh_pc' = [refresh_pc EXCEPT !["fg"] = "install"]
    /\ refresh_left' = [refresh_left EXCEPT !["fg"] = 1]
    /\ UNCHANGED <<hk_error, hk_leaked, vars_cap, vars_clk, vars_play, clk_result, clk_open, clk_after_stop,
                   vars_play_aux>>
    /\ UNCHANGED <<vars_rec, last_call>>

NextDispatch ==
    \/ /\ refresh_pc["fg"] = "idle"
       /\ \E p \in Pages : refresh_pc[p] = "idle" /\ BeginCapture(p, CHOOSE a \in ActionsOf(p) : TRUE)
    \/ KeyDown(KC_a)
    \/ KeyUp(K_esc)
    \/ \E p \in Pages : CapOnPress(p)
    \/ \E p \in Pages : CapCommitThread(p)
    \/ \E p \in Pages : CapOnReleaseThread(p)
    \/ \E t \in Threads : RefreshStop(t)
    \/ \E t \in Threads : RefreshInstall(t)
    \/ ResetConfigStop

SpecDispatch == InitHotkey /\ [][NextDispatch]_vars

\* ------------------------------- one capture session with every modifier

NextChord ==
    \/ BeginCapture("rec", "toggle_play")
    \/ \E k \in {K_ctrl_l, K_alt_l, K_shift, K_cmd, KC_a, KC_Z, K_f9, K_space, K_esc} : KeyDown(k)
    \/ \E k \in {K_ctrl_l, K_alt_l, K_shift, K_cmd, K_esc} : KeyUp(k)
    \/ CapOnPress("rec")
    \/ CapCommit("rec")
    \/ CapOnRelease("rec")

SpecChord == InitHotkey /\ [][NextChord]_vars

\* ------------------------- capture sessions with both keys of a modifier

NextModifiers ==
    \/ \E a \in ActionsOf("rec") : BeginCapture("rec", a)
    \/ \E k \in {K_ctrl_l, K_ctrl_r, KC_a, K_f9} : KeyDown(k)
    \/ \E k \in {K_ctrl_l, K_ctrl_r} : KeyUp(k)
    \/ CapOnPress("rec")
    \/ CapCommit("rec")
    \/ CapOnRelease("rec")

SpecModifiers == InitHotkey /\ [][NextModifiers]_vars

\* ------------------------------------------------------------ properties

\* C4: once a playback task or a click-loop task has read its cancellation
\* flag as set, no step of that run injects a pointer, button, scroll or key
\* action any more.
C4_NoInjectionAfterStopSeen ==
    [][/\ clk_seen_stop => Injected(clk_out') <= Injected(clk_out)
       /\ play_seen_stop => Len(play_applied') <= Len(play_applied)]_vars

\* Both tasks have read the flag as set in their first iteration, after an
\* injected action, with events, markers and a whole iteration left.
C4_Witness ==
    /\ clk_seen_stop /\ clk_pc = "loop_end"
    /\ Injected(clk_out) > 0
    /\ clk_i <= Len(clk_run.markers)
    /\ clk_loop_idx < clk_run.cfg.loops
    /\ play_seen_stop /\ play_pc = "finally"
    /\ Len(play_applied) > 0
    /\ play_i <= Len(play_run.events)
    /\ play_loop_index < play_run.loops

\* C5: a run started with loops = -1 leaves its loop only after a stop
\* request: when the task is at its end, the cancellation flag is set.
C5_InfiniteRunEndsOnlyByStop ==
    /\ (play_pc = "finally" /\ play_run.loops = -1) => stop_play_event
    /\ (clk_pc = "finish" /\ clk_run.cfg.loops = -1) => stop_event

\* C7: the wait handed to time.sleep before event i is (t_i - t_(i-1)) / speed
\* with t_0 = 0 in every iteration, and the waits of a finished iteration add
\* up to (last event's time) / speed.
C7_WaitsFollowRecordedTimes ==
    LET evs == play_run.events
        before(i) == IF i = 1 THEN 0 ELSE evs[i - 1].t
    IN /\ (play_pc = "apply" \/ (play_pc = "finally" /\ play_raised)) =>
              play_wait * play_run.speed = evs[play_i].t - before(play_i)
       /\ play_pc = "loop_end" =>
              play_slept * play_run.speed = evs[Len(evs)].t

\* The second iteration of a two-event recording with distinct positive
\* times has finished at speed 2.
C7_Witness ==
    /\ play_pc = "loop_end"
    /\ play_loop_index = 2
    /\ play_run.speed = 2
    /\ Len(play_run.events) = 2
    /\ play_run.events[1].t > 0
    /\ play_run.events[2].t > play_run.events[1].t
    /\ play_slept > 0

\* C8: an iteration that was not cancelled has applied the effect of every
\* event of the snapshot, once and in the snapshot's order, when it is over.
C8_EveryEventAppliedInOrder ==
    (play_pc \in {"loop_end", "finally"} /\ play_loop_index > 0 /\ ~play_seen_stop) =>
        play_applied = [k \in 1..Len(play_run.events) |-> EffectOf(play_run.events[k])]

\* The move, the click and the clamped wait expected for one marker.
ExpectedClick(m) ==
    <<[op |-> "position", x |-> m.x, y |-> m.y],
      [op |-> "click", button |-> m.button, count |-> 1],
      [op |-> "sleep", d |-> IF m.interval < MIN_WAIT THEN MIN_WAIT
                             ELSE IF m.interval > MAX_WAIT THEN MAX_WAIT
                             ELSE m.interval]>>
RECURSIVE ExpectedIteration(_)
ExpectedIteration(ms) ==
    IF ms = <<>> THEN <<>> ELSE ExpectedClick(Head(ms)) \o ExpectedIteration(Tail(ms))

\* C9: every uncancelled iteration of a click loop issues move, click and
\* clamped wait for m1..mk in order, and an uncancelled run with loops = L >= 0
\* ends after L iterations and L * k clicks.
C9_ClickRunSequence ==
    LET ms == clk_run.markers
        L == clk_run.cfg.loops
    IN /\ (clk_pc = "loop_end" /\ ~clk_seen_stop) => clk_out = ExpectedIteration(ms)
       /\ (clk_pc = "finish" /\ ~stop_event /\ L >= 0) =>
              /\ clk_loop_idx = L
              /\ clk_clicks = L * Len(ms)
              /\ L > 0 => clk_out = ExpectedIteration(ms)

\* An uncancelled run of two loops over two markers is over; one interval was
\* below 0.01 s and one above 5.0 s.
C9_Witness ==
    /\ clk_pc = "finish" /\ ~stop_event
    /\ clk_run.cfg.loops = 2
    /\ Len(clk_run.markers) = 2
    /\ clk_run.markers[1].interval < MIN_WAIT
    /\ clk_run.markers[2].interval > MAX_WAIT
    /\ clk_clicks = 4

\* C6: the post-click wait stored in every marker is inside [0.01 s, 5.0 s].
C6_StoredIntervalClamped ==
    \A k \in DOMAIN markers :
        markers[k].interval >= MIN_WAIT /\ markers[k].interval <= MAX_WAIT

\* Every (page, action) entry of the two binding tables.
Bindings == UNION {{<<p, a>> : a \in ActionsOf(p)} : p \in Pages}

\* C1: at no time is one chord bound to two actions, whether the two
\* actions are on one page or on different pages.
C1_NoChordBoundTwice ==
    \A b1 \in Bindings : \A b2 \in Bindings :
        b1 # b2 => hotkeys[b1[1]][b1[2]] # hotkeys[b2[1]][b2[2]]

\* The chords bound to the actions other than action a of page p.
OtherChords(hk, p, a) ==
    {hk[b[1]][b[2]] : b \in Bindings \ {<<p, a>>}}

\* C2: a step that ends page p's capture session by writing the binding of
\* the captured action writes a chord that no other action held when the step
\* began; and a step in which a listener builds a candidate that is bound to
\* another action changes no binding and leaves the session open.
C2_ConflictRejectedFreeCommitted ==
    [][\A p \in Pages :
          /\ (/\ capture_action[p] # None
              /\ capture_action'[p] = None
              /\ hotkeys'[p] # hotkeys[p])
             => \A a \in ActionsOf(p) :
                    hotkeys'[p][a] # hotkeys[p][a]
                    => /\ a = capture_action[p]
                       /\ hotkeys'[p][a] \notin OtherChords(hotkeys, p, a)
          /\ (/\ capture_action[p] # None
              /\ cap_combo'[p] # cap_combo[p]
              /\ cap_combo'[p] \in OtherChords(hotkeys, p, capture_action[p]))
             => /\ hotkeys' = hotkeys
                /\ capture_action'[p] = capture_action[p]
                /\ cap_pc'[p] = "wait"]_vars

\* C3: at most one page has a capture session open, and at most one capture
\* listener runs.
C3_OneCaptureSession ==
    /\ Cardinality({p \in Pages : capture_action[p] # None}) <= 1
    /\ Cardinality({p \in Pages : cap_listener[p]}) <= 1

\* The chords in canonical form: the modifier tokens present, each once, in the
\* order ctrl, alt, shift, cmd, then one key token, joined by "+".
KeyTokens == Range(DigitChars) \cup Range(LetterChars) \cup {"<" \o n \o ">" : n \in FKeyNames}
CanonicalChords ==
    {JoinPlus(SelectSeq(ORDER, LAMBDA t : t \in S) \o <<k>>) :
        S \in SUBSET Range(ORDER), k \in KeyTokens}

\* C10: every candidate chord a capture listener builds is in canonical
\* form, whatever the order in which the modifiers were pressed.
C10_ChordCanonical ==
    \A p \in Pages : cap_combo[p] # None => cap_combo[p] \in CanonicalChords

\* C10: the four modifiers were pressed in the reverse of the canonical order
\* and are all held; the candidate built lists them in canonical order.
C10_Witness ==
    /\ held = <<K_cmd, K_shift, K_alt_l, K_ctrl_l>>
    /\ cap_combo["rec"] = "<ctrl>+<alt>+<shift>+<cmd>+a"
    /\ cap_pc["rec"] = "commit"

\* C11: in a state where start_playback has to fail (the recording is empty
\* or a playback task is alive) no step launches a task, changes the recording,
\* clears the cancellation flag, sets the playing state or restarts the task,
\* and a result reported in such a state is the no-data failure for an empty
\* recording and the already-running failure otherwise.
C11_RefusedPlaybackStart ==
    [][(recording = <<>> \/ is_playing) =>
          /\ play_open' <= play_open
          /\ recording' = recording
          /\ (stop_play_event => stop_play_event')
          /\ (is_playing' => is_playing)
          /\ play_run' = play_run
          /\ (play_pc' = "delay" => play_pc = "delay")
          /\ (play_result' # play_result =>
                 play_result' = [ok |-> FALSE,
                                 msg |-> IF recording = <<>> THEN MSG_NO_DATA
                                         ELSE MSG_ALREADY_PLAYING])]_vars

\* C11: start_playback has returned the already-running failure while the task
\* is between two events and a stop request is pending.
C11_Witness ==
    /\ play_result = [ok |-> FALSE, msg |-> MSG_ALREADY_PLAYING]
    /\ is_playing /\ stop_play_event
    /\ play_pc = "apply"
    /\ play_open = 1

\* C12: in a state where ClickRunner.start has to fail (the page has no
\* marker or a click-loop task is running) no step launches a task, clears the
\* cancellation flag, sets the running flag or replaces the run, and a result
\* reported in such a state is a failure.
C12_RefusedClickStart ==
    [][(markers = <<>> \/ is_running) =>
          /\ clk_open' <= clk_open
          /\ (stop_event => stop_event')
          /\ (is_running' => is_running)
          /\ clk_run' = clk_run
          /\ clk_snapshot' = clk_snapshot
          /\ (clk_pc' = "delay" => clk_pc = "delay")
          /\ (clk_result' # clk_result => ~clk_result'.ok)]_vars

\* C12: start has failed during a run in which a stop request is pending and
\* not yet read by the worker.
C12_Witness ==
    /\ clk_result = [ok |-> FALSE, msg |-> ""]
    /\ is_running /\ stop_event /\ ~clk_seen_stop
    /\ clk_pc = "sleep"
    /\ clk_open = 1

\* C13: a launched run has had its on-end notification invoked exactly when
\* its task is over, and then the engine is idle: the count of runs launched
\* and not yet notified is 1 while a task is alive and 0 otherwise, so a failed
\* start adds no notification and no run is notified twice.
C13_OnEndExactlyOnce ==
    /\ play_open = (IF play_pc = "idle" THEN 0 ELSE 1)
    /\ clk_open = (IF clk_pc = "idle" THEN 0 ELSE 1)
    /\ play_pc = "idle" => ~is_playing
    /\ clk_pc = "idle" => ~is_running

\* C13: a playback that was started has ended by an error inside the task;
\* the notification has been invoked and the engine is idle.
C13_Witness ==
    /\ play_result.ok /\ play_raised
    /\ play_pc = "idle" /\ ~is_playing
    /\ play_open = 0
    /\ queued_stop_play > 0

\* C14: whatever is done to the page's markers during a click run, the
\* actions of every iteration are those of the values the markers had when
\* start was called, in that order.
C14_RunUsesStartValues ==
    \A k \in DOMAIN clk_out :
        /\ k <= Len(ExpectedIteration(clk_run.markers))
        /\ clk_out[k] = ExpectedIteration(clk_run.markers)[k]

\* C15: while a capture session of either page is capturing, the global
\* dispatcher has no live listener, whatever else happens in between (a
\* configuration load or reset, a state import, the end of a capture on the
\* other page).
C15_NoListenerWhileCapturing ==
    (\E p \in Pages : capture_action[p] # None) => hk_listener = NoListener

\* C18: a page's binding table changes only in the commit step of a capture
\* session of that page.
C18_BindingsChangeOnlyInCommit ==
    [][\A p \in Pages :
          hotkeys'[p] # hotkeys[p] =>
              /\ cap_pc[p] = "commit"
              /\ capture_action[p] # None
              /\ capture_action'[p] = None]_vars

\* C19: playback waits for the gap only between two iterations: the step
\* that ends the final iteration of a bounded run performs no gap wait.
C19_NoGapAfterFinalIteration ==
    [][(/\ play_pc = "loop_end"
        /\ play_run.loops # -1
        /\ play_loop_index >= play_run.loops) => play_gaps' = play_gaps]_vars

\* C20: the wait before an event is never negative: for an event whose time
\* is smaller than its predecessor's the wait is zero, and after the wait the
\* event is applied.
C20_WaitClampedNonNegative ==
    [][(play_pc = "sleep" /\ play_pc' # "sleep") =>
          LET w == WaitTime(play_run.events[play_i].t, play_prev_t, play_run.speed)
          IN /\ play_wait' = (IF w < 0 THEN 0 ELSE w)
             /\ play_pc' = "apply"]_vars

\* C17: on the recorder page recording and playback are never active at the
\* same time: is_recording() and is_playing() are never both true.
C17_NeverRecordingAndPlaying == ~(mouse_listener /\ is_playing)

\* A recording made on the page is being played back.
C17_Witness ==
    /\ is_playing
    /\ ~mouse_listener
    /\ Len(recording) > 0
    /\ play_run.events = recording
    /\ play_pc = "apply"

\* C16: at every instant at most one global hotkey listener is live, and it
\* carries the mapping of the most recent refresh, also when refresh_hotkeys
\* runs in a capture listener thread while the foreground or another capture
\* thread runs it too.
C16_OneLiveListener ==
    /\ hk_leaked = {}
    /\ hk_listener # NoListener => hk_listener = hk_mapping

\* C28: every rejected request has produced a log line: whenever the
\* recorder page's last toggle or start request was refused, a message was
\* logged for it.
C28_RefusalsLogged == last_call.refused => last_call.logged

\* C21: within a recording the elapsed-time stamps are non-decreasing in list
\* order, for every interleaving of the recording threads.
C21_StampsNonDecreasing ==
    \A k \in DOMAIN recording :
        k < Len(recording) => recording[k].t <= recording[k + 1].t

\* C22: after stop_recording has returned, the recording keeps the length
\* that stop reported, until a new recording is started.
C22_FrozenAfterStop == stop_reported # {} => stop_reported = {Len(recording)}

\* C23: when a capture listener handles a press of Esc, the session ends
\* (Cancelled) in that step and no binding table changes; no binding ever
\* holds a chord made from Esc.
C23_EscPressCancels ==
    [][\A p \in Pages :
          (/\ cap_listener[p] /\ cap_inbox[p] # <<>>
           /\ Head(cap_inbox[p]) = [kind |-> "press", key |-> K_esc]
           /\ Len(cap_inbox'[p]) < Len(cap_inbox[p]))
          => /\ capture_action'[p] = None
             /\ hotkeys' = hotkeys
             /\ KeyStr(K_esc) = None]_vars

Claimants(ch) == {a \in UNION {ActionsOf(p) : p \in Pages} :
                    \E p \in Pages : a \in ActionsOf(p) /\ hotkeys[p][a] = ch}

\* C25: in the mapping refresh_hotkeys built, a chord bound on both pages is
\* mapped to an action of the recorder page, and a chord bound to exactly one
\* action is mapped to that action.
C25_UnionMapping ==
    \A ch \in UNION {{hotkeys[p][a] : a \in ActionsOf(p)} : p \in Pages} :
        /\ ch \in DOMAIN hk_mapping
        /\ (Claimants(ch) \cap ActionsOf("rec") # {} /\ Claimants(ch) \cap ActionsOf("clk") # {})
              => hk_mapping[ch] \in Claimants(ch) \cap ActionsOf("rec")
        /\ Cardinality(Claimants(ch)) = 1 => Claimants(ch) = {hk_mapping[ch]}

\* Both pages bind <f9>, the other clicker chord is bound once, and the
\* dispatcher runs with the mapping refresh built.
C25_Witness ==
    /\ hotkeys["rec"]["toggle_record"] = "<f9>"
    /\ hotkeys["clk"]["start_stop"] = "<f9>"
    /\ hk_mapping["<f9>"] = "toggle_record"
    /\ hk_mapping[hotkeys["clk"]["add_marker"]] = "add_marker"
    /\ hk_listener = hk_mapping

\* C26: while the most recent set_mapping is one whose install failed and
\* was handed to the error callback, no global hotkey listener is live.
C26_FailedInstallLeavesNoListener ==
    hk_error => hk_listener = NoListener

\* An install of a non-empty mapping has failed and was reported, after a
\* committed capture had left a listener running.
C26_Witness ==
    /\ hk_error /\ DOMAIN hk_mapping # {}
    /\ hotkeys # DefaultHotkeys
    /\ \A p \in Pages : capture_action[p] = None

\* C27: a load that aborts on an entry it cannot convert leaves the
\* recording, the marker list, the run parameters and the binding tables as
\* they were before the load.
C27_LoadAllOrNothing ==
    [][(/\ last_call' # last_call
        /\ last_call'.op \in {"load_from_file raised", "load_config_file raised"})
       => UNCHANGED <<recording, markers, var_loops, var_delay, hotkeys>>]_vars

\* C29: the dispatcher rebuild (refresh_hotkeys) is never executed by a
\* background thread: only the foreground thread is ever inside it.
C29_RebuildOnForeground ==
    \A t \in Threads \ {"fg"} : refresh_pc[t] = "idle"

\* C30: a playback takes its events from the recording as it is when
\* start_playback is called, keeps them while it runs, and in every loop
\* iteration applies exactly these events in their order, whatever is loaded
\* into the recording meanwhile.
C30_RunReplaysStartEvents ==
    /\ [](\A j \in DOMAIN play_applied :
             /\ j <= Len(play_run.events)
             /\ play_applied[j] = EffectOf(play_run.events[j]))
    /\ [][(~is_playing /\ is_playing') => play_run'.events = recording]_vars
    /\ [][(is_playing /\ is_playing') => play_run' = play_run]_vars

\* Another recording was loaded during the run, and the run's second
\* iteration has applied all the events of the recording it started with.
C30_Witness ==
    /\ is_playing /\ play_loop_index = 2 /\ play_pc = "loop_end"
    /\ recording # play_run.events
    /\ play_run.events = ExampleRecording
    /\ play_applied = [k \in 1..Len(ExampleRecording) |-> EffectOf(ExampleRecording[k])]

\* C31: the marker at list position i has id i, and the window list is as
\* long as the marker list with the window at position i showing number i.
C31_IdsDense ==
    /\ Len(marker_windows) = Len(markers)
    /\ \A i \in DOMAIN markers :
          markers[i].id = i /\ marker_windows[i].marker_id = i

\* The second of two markers is the only one left after a delete or a close,
\* and it and its window carry number 1.
C31_Witness ==
    /\ Len(markers) = 1 /\ Len(marker_windows) = 1
    /\ markers[1].oid = 2
    /\ markers[1].id = 1 /\ marker_windows[1].marker_id = 1

\* C32: every press or release a playback has applied is on the pointer
\* button recorded in the event it replays.
C32_SameButtonReplayed ==
    \A j \in DOMAIN play_applied :
        play_applied[j].op \in {"press", "release"}
            => ButtonStr(play_applied[j].button) = play_run.events[j].button

\* C33: when the task of a run with loops = n >= 0 is at its end and no stop
\* was requested, it has performed exactly n iterations; with n = 0 it has
\* injected nothing.
C33_ExactlyNIterations ==
    /\ (play_pc = "finally" /\ ~stop_play_event /\ play_run.loops >= 0)
          => /\ play_loop_index = play_run.loops
             /\ play_run.loops = 0 => play_applied = <<>>
    /\ (clk_pc = "finish" /\ ~stop_event /\ clk_run.cfg.loops >= 0)
          => /\ clk_loop_idx = clk_run.cfg.loops
             /\ clk_run.cfg.loops = 0 => clk_out = <<>>

\* C34: once the application has started, the four bindings are pairwise
\* distinct and none of them is a chord of the fix-up's fallback list.
C34_FixUpWithinPool ==
    hk_listener # NoListener =>
        /\ \A b1 \in Bindings : \A b2 \in Bindings :
              b1 # b2 => hotkeys[b1[1]][b1[2]] # hotkeys[b2[1]][b2[2]]
        /\ \A b \in Bindings : \A i \in DOMAIN FallbackChords :
              hotkeys[b[1]][b[2]] # FallbackChords[i]

\* The application has started from a file in which a chord was bound more
\* than once and the recorder's first two pool chords were taken: the fix-up
\* has given toggle_record the chord <f11>, which no file holds.
C34_Witness ==
    /\ hk_listener # NoListener
    /\ hotkeys["rec"]["toggle_record"] = "<f11>"

\* C35: a playback started after the previous one returned to idle is never
\* cancelled by the previous run: the stop_play call which the previous run's
\* _on_play_end queued never runs (and so never sets _stop_play_event) while a
\* playback is in progress.  A queued call exists only after a run has ended,
\* so a playback in progress at that step is a later one.
C35_QueuedStopSparesNewRun ==
    [][(queued_stop_play' < queued_stop_play) => ~is_playing]_vars

\* C36: when a click run started from the clicker page ends, _on_run_end runs
\* to its end: after the step that ends the run every marker window is shown.
C36_WindowsShownAfterRun ==
    [][(clk_pc = "finish" /\ clk_pc' = "idle")
          => \A k \in DOMAIN marker_windows' : ~marker_windows'[k].hidden]_vars

\* The modifier tokens of the physical keys held down.
HeldTokens == {ModToken(h) : h \in Range(held)}

\* C37: at a non-modifier key press during a capture session the candidate
\* chord holds exactly the modifiers of which a physical key is held: when
\* on_press builds a candidate from the only pending key event (no key has
\* moved since that press), the candidate is the chord of the held modifiers
\* and the key.
C37_CandidateHasHeldModifiers ==
    [][\A p \in Pages :
          (/\ cap_listener[p] /\ cap_pc[p] = "wait"
           /\ Len(cap_inbox[p]) = 1 /\ Head(cap_inbox[p]).kind = "press"
           /\ ~IsModifier(Head(cap_inbox[p]).key)
           /\ KeyStr(Head(cap_inbox[p]).key) # None
           /\ cap_inbox'[p] # cap_inbox[p] \/ cap_pc'[p] # cap_pc[p])
          => cap_combo'[p] = Combo(HeldTokens, KeyStr(Head(cap_inbox[p]).key))]_vars

\* C38: the sampler of a stopped recording never appends to a later
\* recording: a sampler's append to the recording is made by the sampler of
\* the recording in progress, not by one an earlier recording started.
C38_OnlyCurrentSamplerAppends ==
    [][\A i \in DOMAIN samplers :
          (/\ samplers[i].pc = "append"
           /\ Len(samplers') = Len(samplers) /\ samplers'[i].pc = "sleep"
           /\ Len(recording') = Len(recording) + 1)
          => samplers[i].cur]_vars

\* C39: from the moment stop is called on a running playback or click loop,
\* the run applies at most one further event, or issues at most one further
\* click, wherever the task is when the stop arrives.
C39_AtMostOneAfterStop ==
    /\ play_after_stop <= 1
    /\ clk_after_stop <= 1

\* A stop arrived between the flag check and its event (its click): the one
\* further event has been applied and the task is back at the flag check.
C39_Witness ==
    \/ play_pc = "for" /\ stop_play_event /\ play_after_stop = 1
    \/ clk_pc = "for" /\ stop_event /\ clk_after_stop = 1

\* C40: under fair scheduling a stop request on a running playback or click
\* loop leads to Idle with the on-end notification made, for every loop
\* count; a start after that succeeds with the flag clear, and the new run's
\* flag is set only by a stop requested while it runs, not by a stop request
\* that was queued before it started.
C40_StopLeadsToIdle ==
    /\ (is_playing /\ stop_play_event) ~> (~is_playing /\ play_pc = "idle" /\ play_open = 0)
    /\ (is_running /\ stop_event) ~> (~is_running /\ clk_pc = "idle" /\ clk_open = 0)
    /\ [][/\ (~is_playing /\ is_playing') => (~stop_play_event' /\ play_pc' = "delay")
          /\ (~is_running /\ is_running') => (~stop_event' /\ clk_pc' = "delay")
          /\ (is_playing /\ ~stop_play_event /\ stop_play_event')
                 => queued_stop_play' = queued_stop_play]_vars

====
